---- MODULE Spec2Model ----
(***************************************************************************)
(* Grade aggregation and ranking of the semester report                    *)
(* (SemesterGradeReport.loadReport), together with the tables it reads     *)
(* and the admin operations that write them.                               *)
(*                                                                         *)
(* Units.  Scores and scale bounds are whole points (0..100).  Grade       *)
(* points are kept in hundredths (4.00 is 400), so the weighted total is   *)
(* in hundredths too.  A JS division result is kept as an exact reduced    *)
(* fraction [num, den]; comparisons of two such numbers cross-multiply.    *)
(* Angkatan and curriculum tags are kept as numbers, 0 being the empty     *)
(* string.                                                                 *)
(***************************************************************************)
EXTENDS Integers, Sequences, FiniteSets, TLC

\* ------------------------------------------------------------------ bounds
MaxStudents == 3
MaxGrades == 2
\* the clock stops after MaxTime minutes
MaxTime == 13
\* the rows the table courses can hold
MaxCourses == 5
\* is_admin calls in flight for one user
MaxChecks == 2

\* ------------------------------------------------------------- constants
MinScore == 0
MaxScore == 100
MaxGradePoint == 400
\* const INACTIVITY_TIMEOUT = 10 * 60 * 1000, in minutes
INACTIVITY_TIMEOUT == 10

\* null / no value; a record, so that it compares with rows
Null == [null |-> TRUE]

StudentIds == 1..MaxStudents
ScoreInputs == {72, 90, 95}
\* the text typed into the curriculum filter; 0 is the empty string
CurriculumInputs == {0, 2024}
\* App nests the two providers; both are always mounted together
Providers == {"AuthProvider", "AdminAuthProvider"}
\* GradeUpload is exported but rendered by none of the files at hand; it is
\* given a tab of its own, so that like every other component it has state
\* only while it is on screen
Tabs == {"excel-upload", "manual-input", "grading-scale", "semester-report",
         "grade-upload", "enrollments", "bulk-curriculum", "courses",
         "bulk-course", "students"}
\* the insert requests a bulk enrollment can lose to a request error
LostInputs ==
  {{}} \cup {{[student_id |-> i, course_id |-> c]} : i \in StudentIds, c \in {2, 3}}

\* ------------------------------------------------------------- variables
VARIABLES
  db_students,       \* table students: rows [id, nim, angkatan]
  db_courses,        \* table courses: rows [id, code, credits, semester, curriculum]
  db_grades,         \* table grades: rows [student_id, course_id, score, letter_grade]
  grading_scales,    \* table grading_scales
  activeTab,         \* AdminDashboard state: the one component that is mounted
  selectedAngkatan,  \* SemesterGradeReport state
  selectedSemester,
  curriculumFilter,
  courses,           \* setCourses(coursesData)
  studentGrades,     \* setStudentGrades(studentsList)
  loaded,            \* inputs read by the loadReport that set studentGrades
  step,              \* ExcelGradeUpload state: the wizard step
  file,              \*   the chosen workbook, Null when there is none
  excelSelectedCourse,    \*   selectedCourse of ExcelGradeUpload: a course code
  excelSelectedAngkatan,  \*   selectedAngkatan of ExcelGradeUpload
  preview,           \*   the rows read from the workbook
  uploadedRows,      \*   the rows with the status handleUpload gave them
  manualSelectedCourse,   \* ManualGradeInput state: selectedCourse, a course id
  gradeInputs,       \*   the text of the score input of every student
  csvFile,           \* GradeUpload state: file
  uploadStats,       \*   { success, failed } of the last upload
  mounted,           \* App: the two auth providers are mounted
  session,           \* supabase.auth: there is a session
  user,              \* per provider: its user state is set
  timers,            \* the pending setTimeout timers: [provider, remaining]
  callback,          \* per provider: where its timer callback is
  now,               \* minutes since the page was opened
  idle,              \* minutes since the last activity event
  db_enrollments,    \* table enrollments: rows [id, student_id, course_id]
  showBulkEnrollment,     \* EnrollmentManagement state: BulkEnrollment is shown
  bulkSelectedCourse,     \* BulkEnrollment state: selectedCourse, a course id
  bulkSelectedAngkatan,   \*   selectedAngkatan
  bulkResult,             \*   result: { success, failed, skipped }, or Null
  selectedCurriculum,     \* BulkEnrollmentByCurriculum state
  curriculumSelectedAngkatan,  \*   selectedAngkatan
  curriculumResult,       \*   result.courseDetails, or Null
  courseFile,             \* BulkCourseUpload state: file
  validationResult,       \*   { valid, errors, data }, or Null
  uploadResult,           \*   { success, failed }, or Null
  uploading,              \*   the flag uploading
  validating,             \*   the file a handleValidate in flight is reading
  showForm,               \* GradingScaleManagement state: the modal is open
  editingId,              \*   the entry being edited, or Null
  formData,               \*   the fields of the form, as typed
  error,                  \*   the message above the form, "" for none
  exported,               \* the file the last step wrote, or Null
  auth_users,             \* the accounts of Supabase Auth: id, email
  studentFile,            \* BulkStudentUpload state: file
  studentUploading,       \*   uploading
  studentReading,         \*   the file a handleUpload in flight is reading
  studentResult,          \*   result: { success, failed }, or Null
  studentAlert,           \*   the alert of the last step, "" for none
  sessionUser,            \* the user of the session of the Supabase client, 0 for none
  adminUser,              \* AdminAuthProvider state: user, 0 for null
  isAdmin,                \*   isAdmin
  adminLoading,           \*   loading
  adminChecks,            \*   the is_admin calls in flight, per user id
  getSessionPending,      \*   getSession() of the mount effect has not resolved
  role,                   \* RoleSelector state: role, "" for null
  user_role               \* localStorage 'user_role', "" for no item

dbVars == <<db_students, db_courses, db_grades, grading_scales>>
selVars == <<selectedAngkatan, selectedSemester, curriculumFilter>>
reportVars == <<courses, studentGrades, loaded>>
excelVars == <<step, file, excelSelectedCourse, excelSelectedAngkatan,
               preview, uploadedRows>>
manualVars == <<manualSelectedCourse, gradeInputs>>
csvVars == <<csvFile, uploadStats>>
authVars == <<mounted, session, user, timers, callback, now, idle>>
enrollVars == <<showBulkEnrollment, bulkSelectedCourse, bulkSelectedAngkatan,
                bulkResult>>
curriculumVars == <<selectedCurriculum, curriculumSelectedAngkatan,
                    curriculumResult>>
courseVars == <<courseFile, validationResult, uploadResult, uploading, validating>>
scaleVars == <<showForm, editingId, formData, error>>
roleVars == <<sessionUser, adminUser, isAdmin, adminLoading, adminChecks,
              getSessionPending, role, user_role>>
studentVars == <<auth_users, studentFile, studentUploading, studentReading,
                 studentResult, studentAlert>>
bulkVars == <<db_enrollments, enrollVars, curriculumVars, courseVars>>
\* the state outside the grade entry and the semester report
sysVars == <<authVars, bulkVars>>
\* the state outside the semester report and the tables it reads
extVars == <<excelVars, manualVars, csvVars, sysVars>>
vars == <<db_students, db_courses, db_grades, grading_scales, activeTab,
          selectedAngkatan, selectedSemester, curriculumFilter,
          courses, studentGrades, loaded, extVars, scaleVars, exported, studentVars, roleVars>>

\* ------------------------------------------------------------ arithmetic
RECURSIVE GCD(_, _)
GCD(a, b) == IF b = 0 THEN a ELSE GCD(b, a % b)

\* n / d for n >= 0, d > 0, as a reduced fraction
Divide(n, d) == LET g == GCD(n, d) IN [num |-> n \div g, den |-> d \div g]

Zero == [num |-> 0, den |-> 1]

\* sign of a - b for two fractions
Minus(a, b) == a.num * b.den - b.num * a.den

\* ------------------------------------------------------------- sequences
RECURSIVE SetToSeqs(_)
SetToSeqs(S) ==
  IF S = {} THEN {<<>>}
  ELSE UNION {{<<x>> \o t : t \in SetToSeqs(S \ {x})} : x \in S}

SeqRange(s) == {s[i] : i \in 1..Len(s)}

RECURSIVE OrderByNim(_)
\* .order('nim'): nim is UNIQUE, so the order is total
OrderByNim(S) ==
  IF S = {} THEN <<>>
  ELSE LET x == CHOOSE r \in S : \A o \in S : r.nim <= o.nim
       IN <<x>> \o OrderByNim(S \ {x})

RECURSIVE OrderByCode(_)
\* .order('code')
OrderByCode(S) ==
  IF S = {} THEN <<>>
  ELSE LET x == CHOOSE r \in S : \A o \in S : r.code <= o.code
       IN <<x>> \o OrderByCode(S \ {x})

\* ------------------------------------------------------------ input text
\* The text of a score cell or score input: nothing, a number, or text that
\* is not a number.
Empty == [kind |-> "empty", value |-> 0]
Text == [kind |-> "text", value |-> 0]
Num(n) == [kind |-> "number", value |-> n]

\* a JS number: NaN, or the value
NaN == [nan |-> TRUE, value |-> 0]
Number(n) == [nan |-> FALSE, value |-> n]

\* ------------------------------------------------------------- seed data
AngkatanOf(i) == IF i = 3 THEN 2023 ELSE 2024

\* nim descends as id ascends, so that the order by nim is not the id order
SeedStudents ==
  {[id |-> i, nim |-> 100 - i, angkatan |-> AngkatanOf(i)] : i \in StudentIds}

SeedCourses ==
  { [id |-> 1, code |-> 101, credits |-> 3, semester |-> 1, curriculum |-> 2024],
    [id |-> 2, code |-> 102, credits |-> 2, semester |-> 1, curriculum |-> 2024],
    [id |-> 3, code |-> 201, credits |-> 2, semester |-> 2, curriculum |-> 2024] }

ScaleA == [curriculum |-> 2024, letter_grade |-> "A",
           min_score |-> 85, max_score |-> 100, grade_point |-> 400]
ScaleB == [curriculum |-> 2024, letter_grade |-> "B",
           min_score |-> 70, max_score |-> 84, grade_point |-> 300]
ScaleE == [curriculum |-> 2024, letter_grade |-> "E",
           min_score |-> 0, max_score |-> 69, grade_point |-> 0]
\* an entry an admin may add: it overlaps B on 70..84 and A on 85..92
ScaleBPlus == [curriculum |-> 2024, letter_grade |-> "B+",
               min_score |-> 70, max_score |-> 92, grade_point |-> 333]
\* a form the validation of handleSubmit refuses
ScaleBad == [curriculum |-> 2024, letter_grade |-> "C",
             min_score |-> 60, max_score |-> 50, grade_point |-> 200]

\* the scale of curriculum 2024 as the admin has entered it, in whole points
SeedScales == {ScaleA, ScaleB, ScaleE}

\* enrollments: every student takes course 1, students 1 and 2 take course 2,
\* student 1 takes course 3
SeedEnrollments ==
  {[student_id |-> i, course_id |-> 1] : i \in StudentIds}
    \cup {[student_id |-> i, course_id |-> 2] : i \in StudentIds \cap {1, 2}}
    \cup {[student_id |-> i, course_id |-> 3] : i \in StudentIds \cap {1}}
\* the rows of the table: the id stands for the uuid of the row
SeedEnrollmentRows ==
  {[id |-> 10 * e.student_id + e.course_id,
    student_id |-> e.student_id, course_id |-> e.course_id] : e \in SeedEnrollments}
\* every seed student has an account; the id of students references it
SeedEmail(i) == IF i = 1 THEN "a@u.edu" ELSE IF i = 2 THEN "s2@u.edu"
                ELSE "s@u.edu"
SeedAccounts == {[id |-> i, email |-> SeedEmail(i)] : i \in StudentIds}
\* the admin has an account of their own; admin_users holds that one
AdminId == MaxStudents + 1
admin_users == {[id |-> AdminId]}
\* the accounts that sign in: the admin and student 1
SignInUsers == {AdminId, 1}
FormInputs == {ScaleA, ScaleB, ScaleE, ScaleBPlus, ScaleBad}

\* the fields of the form are strings: scale.min_score.toString() and so on
FormOf(scale) ==
  [curriculum |-> scale.curriculum, letter_grade |-> scale.letter_grade,
   min_score |-> Num(scale.min_score), max_score |-> Num(scale.max_score),
   grade_point |-> Num(scale.grade_point)]
\* useState<GradingScaleForm>: '2024', 'A', '85', '100', '4.00'
DefaultForm == FormOf(ScaleA)
\* the forms an admin types: the entries of FormInputs, a maximum above 100,
\* a grade point above 4, a minimum below 0 and a minimum left empty
Forms ==
  {FormOf(f) : f \in FormInputs}
    \cup {[FormOf(ScaleBPlus) EXCEPT !.max_score = Num(101)],
          [FormOf(ScaleBPlus) EXCEPT !.grade_point = Num(401)],
          [FormOf(ScaleBPlus) EXCEPT !.min_score = Num(0 - 1)],
          [FormOf(ScaleBPlus) EXCEPT !.min_score = Empty]}

\* -------------------------------------------------- grading-scale lookup
\* faulty variant: .lt / .gt in place of .lte / .gte
GradingScalesQueryStrict(scales, score, curriculum) ==
  {e \in scales : e.curriculum = curriculum
                    /\ e.min_score < score /\ e.max_score > score}

\* .eq('curriculum', curriculum).lte('min_score', score).gte('max_score', score)
GradingScalesQuery(scales, score, curriculum) ==
  {e \in scales : e.curriculum = curriculum
                    /\ e.min_score <= score /\ e.max_score >= score}

\* .maybeSingle(): the row when the result has exactly one row; data is null
\* when there is none, and also when there are several (the call then
\* reports an error, which getGradePoint does not look at)
maybeSingle(rows) ==
  IF Cardinality(rows) = 1 THEN CHOOSE r \in rows : TRUE ELSE Null

\* return data?.grade_point || 0
getGradePoint(scales, score, curriculum) ==
  LET data == maybeSingle(GradingScalesQuery(scales, score, curriculum))
  IN IF data = Null THEN 0 ELSE data.grade_point

\* SQL get_grade_point: SELECT ... LIMIT 1 without ORDER BY returns any one
\* of the matching rows; COALESCE(v_grade_point, 0.00) when there is none.
\* The set of values the function may return.
get_grade_point(scales, p_score, p_curriculum) ==
  LET rows == GradingScalesQuery(scales, p_score, p_curriculum)
  IN IF rows = {} THEN {0} ELSE {r.grade_point : r \in rows}

\* SQL get_letter_grade: the same lookup, COALESCE(v_letter_grade, 'E')
get_letter_grade(scales, p_score, p_curriculum) ==
  LET rows == GradingScalesQuery(scales, p_score, p_curriculum)
  IN IF rows = {} THEN {"E"} ELSE {r.letter_grade : r \in rows}

\* ManualGradeInput.calculateLetterGrade
calculateLetterGrade(score) ==
  IF score >= 85 THEN "A"
  ELSE IF score >= 80 THEN "A-"
  ELSE IF score >= 75 THEN "B+"
  ELSE IF score >= 70 THEN "B"
  ELSE IF score >= 65 THEN "B-"
  ELSE IF score >= 60 THEN "C+"
  ELSE IF score >= 55 THEN "C"
  ELSE IF score >= 50 THEN "C-"
  ELSE IF score >= 45 THEN "D"
  ELSE "E"

\* ---------------------------------------------------------------- queries
\* from('courses').eq('semester', ..).eq('curriculum', ..).order('code')
CoursesQuery(tbl, semester, curriculum) ==
  OrderByCode({c \in tbl : c.semester = semester /\ c.curriculum = curriculum})

\* from('students').eq('angkatan', ..).order('nim')
StudentsQuery(tbl, angkatan) ==
  OrderByNim({s \in tbl : s.angkatan = angkatan})

\* from('grades').in('course_id', ..).in('student_id', ..): no order is asked
\* for, so the rows may come back in any order
GradesQuery(tbl, courseIds, studentIds) ==
  SetToSeqs({g \in tbl : g.course_id \in courseIds /\ g.student_id \in studentIds})

\* ------------------------------------------------------------- loadReport
\* studentGradesMap[student.id] = {...}: the map is kept as the sequence of
\* its values in insertion order (the keys are uuids, which Object.values
\* lists in insertion order)
InitialMap(studentsData) ==
  [i \in 1..Len(studentsData) |->
     [student_id |-> studentsData[i].id,
      nim |-> studentsData[i].nim,
      angkatan |-> studentsData[i].angkatan,
      courses |-> <<>>,
      totalScore |-> 0,
      totalGradePoint |-> 0,
      totalCredits |-> 0,
      gpa |-> Zero,
      rank |-> 0]]

\* student.courses[course_id] = entry
PutCourse(cs, entry) ==
  IF \E i \in 1..Len(cs) : cs[i].course_id = entry.course_id
  THEN [i \in 1..Len(cs) |->
          IF cs[i].course_id = entry.course_id THEN entry ELSE cs[i]]
  ELSE Append(cs, entry)

RECURSIVE FillMapAborting(_, _, _, _, _)
\* faulty variant: a grade whose lookup resolves no entry ends the loop, and
\* the records after it are not aggregated
FillMapAborting(map, gradesData, coursesData, scales, curriculum) ==
  IF gradesData = <<>> THEN map
  ELSE
    LET grade == Head(gradesData)
        found == {i \in 1..Len(coursesData) : coursesData[i].id = grade.course_id}
        inMap == \E i \in 1..Len(map) : map[i].student_id = grade.student_id
        data == maybeSingle(GradingScalesQuery(scales, grade.score, curriculum))
        next ==
          IF found # {} /\ inMap
          THEN LET course == coursesData[CHOOSE i \in found : \A j \in found : i <= j]
                   entry == [course_id |-> grade.course_id,
                             score |-> grade.score,
                             letter_grade |-> grade.letter_grade,
                             grade_point |-> getGradePoint(scales, grade.score, curriculum),
                             credits |-> course.credits]
               IN [i \in 1..Len(map) |->
                     IF map[i].student_id = grade.student_id
                     THEN [map[i] EXCEPT !.courses = PutCourse(@, entry)]
                     ELSE map[i]]
          ELSE map
    IN IF data = Null THEN map
       ELSE FillMapAborting(next, Tail(gradesData), coursesData, scales, curriculum)

RECURSIVE FillMap(_, _, _, _, _)
\* for (const grade of gradesData || []) { ... }
FillMap(map, gradesData, coursesData, scales, curriculum) ==
  IF gradesData = <<>> THEN map
  ELSE
    LET grade == Head(gradesData)
        found == {i \in 1..Len(coursesData) : coursesData[i].id = grade.course_id}
        inMap == \E i \in 1..Len(map) : map[i].student_id = grade.student_id
        next ==
          IF found # {} /\ inMap
          THEN LET course == coursesData[CHOOSE i \in found : \A j \in found : i <= j]
                   entry == [course_id |-> grade.course_id,
                             score |-> grade.score,
                             letter_grade |-> grade.letter_grade,
                             grade_point |-> getGradePoint(scales, grade.score, curriculum),
                             credits |-> course.credits]
               IN [i \in 1..Len(map) |->
                     IF map[i].student_id = grade.student_id
                     THEN [map[i] EXCEPT !.courses = PutCourse(@, entry)]
                     ELSE map[i]]
          ELSE map
    IN FillMap(next, Tail(gradesData), coursesData, scales, curriculum)

RECURSIVE TotalsUnweighted(_, _)
\* faulty variant: the grade point is added without its credit weight
TotalsUnweighted(cs, acc) ==
  IF cs = <<>> THEN acc
  ELSE TotalsUnweighted(Tail(cs),
              [totalScore |-> acc.totalScore + Head(cs).score,
               totalWeightedGradePoint |->
                 acc.totalWeightedGradePoint + Head(cs).grade_point,
               totalCredits |-> acc.totalCredits + Head(cs).credits,
               courseCount |-> acc.courseCount + 1])

RECURSIVE Totals(_, _)
\* for (const courseId in student.courses) { totalScore += ...; ... }
Totals(cs, acc) ==
  IF cs = <<>> THEN acc
  ELSE Totals(Tail(cs),
              [totalScore |-> acc.totalScore + Head(cs).score,
               totalWeightedGradePoint |->
                 acc.totalWeightedGradePoint + Head(cs).grade_point * Head(cs).credits,
               totalCredits |-> acc.totalCredits + Head(cs).credits,
               courseCount |-> acc.courseCount + 1])

\* faulty variant: the weighted total is divided by the number of courses
GpaByCourseCount(t) ==
  IF t.totalCredits > 0 THEN Divide(t.totalWeightedGradePoint, t.courseCount)
  ELSE Zero

\* faulty variant: the score total is averaged instead of the weighted grade points
GpaOfScores(t) ==
  IF t.totalCredits > 0 THEN Divide(t.totalScore * 100, t.totalCredits)
  ELSE Zero

\* gpa: totalCredits > 0 ? totalWeightedGradePoint / totalCredits : 0
Gpa(t) ==
  IF t.totalCredits > 0 THEN Divide(t.totalWeightedGradePoint, t.totalCredits)
  ELSE Zero

\* the body of Object.values(studentGradesMap).map(student => ...)
Aggregate(student) ==
  LET t == Totals(student.courses,
                  [totalScore |-> 0, totalWeightedGradePoint |-> 0,
                   totalCredits |-> 0, courseCount |-> 0])
  IN [student EXCEPT !.totalScore = t.totalScore,
                     !.totalGradePoint = t.totalWeightedGradePoint,
                     !.totalCredits = t.totalCredits,
                     !.gpa = Gpa(t)]

\* faulty variant: the comparator without its last key
compareNoScore(a, b) ==
  IF b.gpa # a.gpa THEN Minus(b.gpa, a.gpa)
  ELSE b.totalGradePoint - a.totalGradePoint

\* the comparator of studentsList.sort: negative when a goes first
compare(a, b) ==
  IF b.gpa # a.gpa THEN Minus(b.gpa, a.gpa)
  ELSE IF b.totalGradePoint # a.totalGradePoint
       THEN b.totalGradePoint - a.totalGradePoint
       ELSE b.totalScore - a.totalScore

RECURSIVE InsertSorted(_, _)
InsertSorted(s, x) ==
  IF s = <<>> THEN <<x>>
  ELSE IF compare(Head(s), x) <= 0 THEN <<Head(s)>> \o InsertSorted(Tail(s), x)
       ELSE <<x>> \o s

RECURSIVE sort(_)
\* Array.prototype.sort: stable, so elements the comparator calls equal keep
\* their order
sort(list) ==
  IF list = <<>> THEN <<>>
  ELSE InsertSorted(sort(SubSeq(list, 1, Len(list) - 1)), list[Len(list)])

\* faulty variant: competition ranking, rank = 1 + the number of students ahead
AssignRankShared(list) ==
  [i \in 1..Len(list) |->
     [list[i] EXCEPT !.rank =
        1 + Cardinality({j \in 1..Len(list) : compare(list[j], list[i]) < 0})]]

\* studentsList.forEach((student, index) => { student.rank = index + 1 })
AssignRank(list) == [i \in 1..Len(list) |-> [list[i] EXCEPT !.rank = i]]

\* faulty variant: only the students that have a course result are listed
StudentsListGradedOnly(studentsData, coursesData, gradesData, scales, curriculum) ==
  LET map == FillMap(InitialMap(studentsData), gradesData, coursesData,
                     scales, curriculum)
      list == [i \in 1..Len(map) |-> Aggregate(map[i])]
  IN AssignRank(sort(SelectSeq(list, LAMBDA st : st.courses # <<>>)))

RECURSIVE OrderByKey(_, _)
OrderByKey(S, key) ==
  IF S = {} THEN <<>>
  ELSE LET x == CHOOSE r \in S : \A o \in S : key[r] <= key[o]
       IN <<x>> \o OrderByKey(S \ {x}, key)

\* faulty variant: the map is filled by grouping the grade rows by student, so its
\* insertion order is the order in which the students appear in gradesData
StudentsListGroupedByGrade(studentsData, coursesData, gradesData, scales, curriculum) ==
  LET rows == SeqRange(studentsData)
      pos == [r \in rows |->
                IF \E k \in 1..Len(gradesData) : gradesData[k].student_id = r.id
                THEN CHOOSE k \in 1..Len(gradesData) :
                       /\ gradesData[k].student_id = r.id
                       /\ \A m \in 1..(k - 1) : gradesData[m].student_id # r.id
                ELSE Len(gradesData)
                       + (CHOOSE k \in 1..Len(studentsData) : studentsData[k] = r)]
      map == FillMap(InitialMap(OrderByKey(rows, pos)), gradesData, coursesData,
                     scales, curriculum)
      list == [i \in 1..Len(map) |-> Aggregate(map[i])]
  IN AssignRank(sort(list))

\* studentsList as handed to setStudentGrades
StudentsList(studentsData, coursesData, gradesData, scales, curriculum) ==
  LET map == FillMap(InitialMap(studentsData), gradesData, coursesData,
                     scales, curriculum)
      list == [i \in 1..Len(map) |-> Aggregate(map[i])]
  IN AssignRank(sort(list))

\* ---------------------------------------------------------- initial state
\* One admin session on a database that holds the seed students, courses and
\* enrollments and the default grading scale.  AdminDashboard mounts exactly
\* one tab component at a time; the state of SemesterGradeReport exists while
\* its tab is the active one and is kept at its useState defaults otherwise.
Init ==
  /\ db_students = SeedStudents
  /\ db_courses = SeedCourses
  /\ db_grades = {}
  /\ grading_scales = SeedScales
  /\ activeTab = "excel-upload"
  /\ selectedAngkatan = 0
  /\ selectedSemester = 1
  /\ curriculumFilter = 0
  /\ courses = <<>>
  /\ studentGrades = <<>>
  /\ loaded = Null
  /\ step = "select"
  /\ file = Null
  /\ excelSelectedCourse = 0
  /\ excelSelectedAngkatan = 0
  /\ preview = <<>>
  /\ uploadedRows = <<>>
  /\ manualSelectedCourse = 0
  /\ gradeInputs = [i \in StudentIds |-> Empty]
  /\ csvFile = Null
  /\ uploadStats = [success |-> 0, failed |-> 0]
  /\ mounted = TRUE
  /\ session = FALSE
  /\ user = [p \in Providers |-> FALSE]
  /\ timers = {}
  /\ callback = [p \in Providers |-> "none"]
  /\ now = 0
  /\ idle = 0
  /\ db_enrollments = SeedEnrollmentRows
  /\ showBulkEnrollment = FALSE
  /\ bulkSelectedCourse = 0
  /\ bulkSelectedAngkatan = 0
  /\ bulkResult = Null
  /\ selectedCurriculum = 0
  /\ curriculumSelectedAngkatan = 0
  /\ curriculumResult = Null
  /\ courseFile = Null
  /\ validationResult = Null
  /\ uploadResult = Null
  /\ uploading = FALSE
  /\ validating = Null
  /\ showForm = FALSE
  /\ editingId = Null
  /\ formData = DefaultForm
  /\ error = ""
  /\ exported = Null
  /\ auth_users = SeedAccounts
  /\ studentFile = Null
  /\ studentUploading = FALSE
  /\ studentReading = Null
  /\ studentResult = Null
  /\ studentAlert = ""
  /\ sessionUser = 0
  /\ adminUser = 0
  /\ isAdmin = FALSE
  /\ adminLoading = TRUE
  /\ adminChecks = [u \in SignInUsers |-> 0]
  /\ getSessionPending = TRUE
  /\ role = ""
  /\ user_role = ""

\* loadAngkatanList: the distinct angkatan values of the students
angkatanList == {s.angkatan : s \in db_students}

\* loadSemesterList: the distinct semesters of the courses
semesterList == {c.semester : c \in db_courses}

\* ---------------------------------------------------------------- actions
\* AdminDashboard setActiveTab: the old component unmounts and its state is
\* gone; SemesterGradeReport mounts with its defaults and loadAngkatanList
\* selects the first angkatan in descending order
setActiveTab ==
  /\ \E tab \in Tabs \ {activeTab} :
       /\ activeTab' = tab
       /\ selectedAngkatan' =
            IF tab = "semester-report" /\ angkatanList # {}
            THEN CHOOSE a \in angkatanList : \A o \in angkatanList : a >= o
            ELSE 0
  /\ selectedSemester' = 1
  /\ curriculumFilter' = 0
  /\ courses' = <<>>
  /\ studentGrades' = <<>>
  /\ loaded' = Null
  /\ step' = "select"
  /\ file' = Null
  /\ excelSelectedCourse' = 0
  /\ excelSelectedAngkatan' = 0
  /\ preview' = <<>>
  /\ uploadedRows' = <<>>
  /\ manualSelectedCourse' = 0
  /\ gradeInputs' = [i \in StudentIds |-> Empty]
  /\ csvFile' = Null
  /\ uploadStats' = [success |-> 0, failed |-> 0]
  /\ showBulkEnrollment' = FALSE
  /\ bulkSelectedCourse' = 0
  /\ bulkSelectedAngkatan' = 0
  /\ bulkResult' = Null
  /\ selectedCurriculum' = 0
  /\ curriculumSelectedAngkatan' = 0
  /\ curriculumResult' = Null
  /\ courseFile' = Null
  /\ validationResult' = Null
  /\ uploadResult' = Null
  /\ uploading' = FALSE
  /\ validating' = Null
  /\ showForm' = FALSE
  /\ editingId' = Null
  /\ formData' = DefaultForm
  /\ error' = ""
  /\ exported' = Null
  /\ studentFile' = Null
  /\ studentUploading' = FALSE
  /\ studentReading' = Null
  /\ studentResult' = Null
  /\ studentAlert' = ""
  /\ UNCHANGED dbVars
  /\ UNCHANGED <<authVars, db_enrollments, auth_users>>
  /\ UNCHANGED roleVars

\* <select value={selectedAngkatan} onChange=...>
setSelectedAngkatan ==
  /\ activeTab = "semester-report"
  /\ \E a \in {0} \cup angkatanList : selectedAngkatan' = a
  /\ UNCHANGED <<selectedSemester, curriculumFilter, activeTab>>
  /\ UNCHANGED dbVars
  /\ UNCHANGED reportVars
  /\ UNCHANGED extVars
  /\ UNCHANGED scaleVars
  /\ exported' = Null
  /\ UNCHANGED studentVars
  /\ UNCHANGED roleVars

\* <select value={selectedSemester} onChange=...>
setSelectedSemester ==
  /\ activeTab = "semester-report"
  /\ \E n \in semesterList : selectedSemester' = n
  /\ UNCHANGED <<selectedAngkatan, curriculumFilter, activeTab>>
  /\ UNCHANGED dbVars
  /\ UNCHANGED reportVars
  /\ UNCHANGED extVars
  /\ UNCHANGED scaleVars
  /\ exported' = Null
  /\ UNCHANGED studentVars
  /\ UNCHANGED roleVars

\* <input value={curriculumFilter} onChange=...>
setCurriculumFilter ==
  /\ activeTab = "semester-report"
  /\ \E c \in CurriculumInputs : curriculumFilter' = c
  /\ UNCHANGED <<selectedAngkatan, selectedSemester, activeTab>>
  /\ UNCHANGED dbVars
  /\ UNCHANGED reportVars
  /\ UNCHANGED extVars
  /\ UNCHANGED scaleVars
  /\ exported' = Null
  /\ UNCHANGED studentVars
  /\ UNCHANGED roleVars

\* SemesterGradeReport.loadReport, from the click to setLoading(false)
loadReport ==
  /\ activeTab = "semester-report"
  /\ selectedAngkatan # 0
  /\ selectedSemester # 0
  /\ LET curriculum == IF curriculumFilter # 0 THEN curriculumFilter
                       ELSE selectedAngkatan
         coursesData == CoursesQuery(db_courses, selectedSemester, curriculum)
         studentsData == StudentsQuery(db_students, selectedAngkatan)
     IN IF coursesData = <<>>
        THEN UNCHANGED reportVars
        ELSE IF studentsData = <<>>
        THEN /\ courses' = coursesData
             /\ UNCHANGED <<studentGrades, loaded>>
        ELSE \E gradesData \in
                 GradesQuery(db_grades,
                             {coursesData[i].id : i \in 1..Len(coursesData)},
                             {studentsData[i].id : i \in 1..Len(studentsData)}) :
               /\ courses' = coursesData
               /\ studentGrades' = StudentsList(studentsData, coursesData,
                                                gradesData, grading_scales,
                                                curriculum)
               /\ loaded' = [angkatan |-> selectedAngkatan,
                             semester |-> selectedSemester,
                             curriculum |-> curriculum,
                             students |-> db_students,
                             courses |-> db_courses,
                             grades |-> db_grades,
                             scales |-> grading_scales]
  /\ UNCHANGED selVars
  /\ UNCHANGED activeTab
  /\ UNCHANGED dbVars
  /\ UNCHANGED extVars
  /\ UNCHANGED scaleVars
  /\ exported' = Null
  /\ UNCHANGED studentVars
  /\ UNCHANGED roleVars

\* SemesterGradeReport.exportToExcel: the rows and courses on screen, the
\* sheet `Semester ${selectedSemester}`, the file
\* `Nilai_Semester_${selectedSemester}_Angkatan_${selectedAngkatan}.xlsx`;
\* the buttons are rendered when studentGrades.length > 0
exportToExcel ==
  /\ activeTab = "semester-report"
  /\ Len(studentGrades) > 0
  /\ exported' = [kind |-> "xlsx",
                  semester |-> selectedSemester,
                  angkatan |-> selectedAngkatan,
                  curriculum |-> 0,
                  courses |-> courses,
                  rows |-> studentGrades]
  /\ UNCHANGED <<dbVars, activeTab, selVars, reportVars, extVars, scaleVars>>
  /\ UNCHANGED studentVars
  /\ UNCHANGED roleVars

\* SemesterGradeReport.exportToPDF: the title
\* `Nilai Semester ${selectedSemester} - Angkatan ${selectedAngkatan}` and
\* the line `Kurikulum: ${curriculumFilter || selectedAngkatan}`
exportToPDF ==
  /\ activeTab = "semester-report"
  /\ Len(studentGrades) > 0
  /\ exported' = [kind |-> "pdf",
                  semester |-> selectedSemester,
                  angkatan |-> selectedAngkatan,
                  curriculum |-> IF curriculumFilter # 0 THEN curriculumFilter
                                 ELSE selectedAngkatan,
                  courses |-> courses,
                  rows |-> studentGrades]
  /\ UNCHANGED <<dbVars, activeTab, selVars, reportVars, extVars, scaleVars>>
  /\ UNCHANGED studentVars
  /\ UNCHANGED roleVars

\* ManualGradeInput.handleSaveGrades with one score entered for an enrolled
\* student: upsert(gradesToSave, {onConflict: 'student_id,course_id'})
handleSaveGrades ==
  /\ activeTab = "manual-input"
  /\ \E en \in SeedEnrollments, score \in ScoreInputs :
       LET row == [student_id |-> en.student_id, course_id |-> en.course_id,
                   score |-> score,
                   letter_grade |-> calculateLetterGrade(score)]
           old == {g \in db_grades : g.student_id = en.student_id
                                      /\ g.course_id = en.course_id}
       IN /\ old # {} \/ Cardinality(db_grades) < MaxGrades
          /\ db_grades' = (db_grades \ old) \cup {row}
  /\ UNCHANGED <<db_students, db_courses, grading_scales, activeTab>>
  /\ UNCHANGED selVars
  /\ UNCHANGED reportVars
  /\ UNCHANGED extVars
  /\ UNCHANGED scaleVars
  /\ UNCHANGED exported
  /\ UNCHANGED studentVars
  /\ UNCHANGED roleVars

\* parseFloat of a field of the form: '' (a number input holding no number)
\* gives NaN
scaleParseFloat(field) ==
  IF field.kind = "number" THEN Number(field.value) ELSE NaN

\* faulty variant: the check of the grade point is missing
validationErrorNoPoint(minScore, maxScore, gradePoint) ==
  IF minScore.nan \/ maxScore.nan \/ gradePoint.nan
    THEN "Nilai harus berupa angka yang valid"
  ELSE IF minScore.value < MinScore \/ minScore.value > MaxScore
            \/ maxScore.value < MinScore \/ maxScore.value > MaxScore
    THEN "Nilai harus antara 0-100"
  ELSE IF minScore.value > maxScore.value
    THEN "Nilai minimum tidak boleh lebih besar dari nilai maksimum"
  ELSE ""

\* the checks of handleSubmit in their order: the message of the first one
\* that refuses, "" when all pass
validationError(minScore, maxScore, gradePoint) ==
  IF minScore.nan \/ maxScore.nan \/ gradePoint.nan
    THEN "Nilai harus berupa angka yang valid"
  ELSE IF minScore.value < MinScore \/ minScore.value > MaxScore
            \/ maxScore.value < MinScore \/ maxScore.value > MaxScore
    THEN "Nilai harus antara 0-100"
  ELSE IF minScore.value > maxScore.value
    THEN "Nilai minimum tidak boleh lebih besar dari nilai maksimum"
  ELSE IF gradePoint.value < 0 \/ gradePoint.value > MaxGradePoint
    THEN "Grade point harus antara 0-4"
  ELSE ""

\* dataToSave
dataToSave(form, minScore, maxScore, gradePoint) ==
  [curriculum |-> form.curriculum, letter_grade |-> form.letter_grade,
   min_score |-> minScore.value, max_score |-> maxScore.value,
   grade_point |-> gradePoint.value]

\* "Tambah Grade" / "Buat Grading Scale": setShowForm(true); the modal covers
\* the page while it is open
setShowForm ==
  /\ activeTab = "grading-scale"
  /\ ~showForm
  /\ showForm' = TRUE
  /\ UNCHANGED <<editingId, formData, error>>
  /\ UNCHANGED <<dbVars, activeTab, selVars, reportVars, extVars>>
  /\ UNCHANGED exported
  /\ UNCHANGED studentVars
  /\ UNCHANGED roleVars

\* GradingScaleManagement.handleEdit
handleEdit ==
  /\ activeTab = "grading-scale"
  /\ ~showForm
  /\ \E scale \in grading_scales :
       /\ formData' = FormOf(scale)
       /\ editingId' = scale
  /\ showForm' = TRUE
  /\ UNCHANGED error
  /\ UNCHANGED <<dbVars, activeTab, selVars, reportVars, extVars>>
  /\ UNCHANGED exported
  /\ UNCHANGED studentVars
  /\ UNCHANGED roleVars

\* the onChange handlers of the form: setFormData({ ...formData, field })
setFormData ==
  /\ activeTab = "grading-scale"
  /\ showForm
  /\ \E form \in Forms \ {formData} : formData' = form
  /\ UNCHANGED <<showForm, editingId, error>>
  /\ UNCHANGED <<dbVars, activeTab, selVars, reportVars, extVars>>
  /\ UNCHANGED exported
  /\ UNCHANGED studentVars
  /\ UNCHANGED roleVars

\* GradingScaleManagement.handleClose
handleClose ==
  /\ activeTab = "grading-scale"
  /\ showForm
  /\ showForm' = FALSE
  /\ editingId' = Null
  /\ formData' = DefaultForm
  /\ error' = ""
  /\ UNCHANGED <<dbVars, activeTab, selVars, reportVars, extVars>>
  /\ UNCHANGED exported
  /\ UNCHANGED studentVars
  /\ UNCHANGED roleVars

\* GradingScaleManagement.handleSubmit: validate, then update the entry of
\* editingId or insert; a refusal of the table (CONSTRAINT
\* unique_curriculum_grade UNIQUE (curriculum, letter_grade)) is the error
handleSubmit ==
  /\ activeTab = "grading-scale"
  /\ showForm
  /\ LET minScore == scaleParseFloat(formData.min_score)
         maxScore == scaleParseFloat(formData.max_score)
         gradePoint == scaleParseFloat(formData.grade_point)
         refusal == validationError(minScore, maxScore, gradePoint)
         entry == dataToSave(formData, minScore, maxScore, gradePoint)
         others == IF editingId = Null THEN grading_scales
                   ELSE grading_scales \ {editingId}
     IN IF refusal # ""
        THEN /\ error' = refusal
             /\ UNCHANGED <<grading_scales, showForm, editingId, formData>>
        ELSE IF \E e \in others : e.curriculum = entry.curriculum
                                    /\ e.letter_grade = entry.letter_grade
        THEN /\ error' = "duplicate key value violates unique constraint"
             /\ UNCHANGED <<grading_scales, showForm, editingId, formData>>
        ELSE /\ grading_scales' = others \cup {entry}
             /\ formData' = DefaultForm
             /\ editingId' = Null
             /\ showForm' = FALSE
             /\ error' = ""
  /\ UNCHANGED <<db_students, db_courses, db_grades, activeTab>>
  /\ UNCHANGED selVars
  /\ UNCHANGED reportVars
  /\ UNCHANGED extVars
  /\ UNCHANGED exported
  /\ UNCHANGED studentVars
  /\ UNCHANGED roleVars

\* GradingScaleManagement.handleDelete, confirmed
handleDelete ==
  /\ activeTab = "grading-scale"
  /\ ~showForm
  /\ \E e \in grading_scales :
       grading_scales' = grading_scales \ {e}
  /\ UNCHANGED scaleVars
  /\ UNCHANGED <<db_students, db_courses, db_grades, activeTab>>
  /\ UNCHANGED selVars
  /\ UNCHANGED reportVars
  /\ UNCHANGED extVars
  /\ UNCHANGED exported
  /\ UNCHANGED studentVars
  /\ UNCHANGED roleVars

Next ==
  \/ setActiveTab
  \/ setSelectedAngkatan
  \/ setSelectedSemester
  \/ setCurriculumFilter
  \/ loadReport
  \/ handleSaveGrades
  \/ setShowForm
  \/ handleEdit
  \/ setFormData
  \/ handleClose
  \/ handleSubmit
  \/ handleDelete

Spec == Init /\ [][Next]_vars

\* the semester report with its exports, on the seed grading scale
NextReport ==
  \/ setActiveTab
  \/ setSelectedAngkatan
  \/ setSelectedSemester
  \/ setCurriculumFilter
  \/ loadReport
  \/ handleSaveGrades
  \/ exportToExcel
  \/ exportToPDF

SpecReport == Init /\ [][NextReport]_vars

\* ============================================================ grade entry
\* The three paths that write the table grades: ExcelGradeUpload,
\* ManualGradeInput and GradeUpload (CSV).

\* parseFloat(row['Nilai'] || row['nilai'] || row['Score'] || '0'): an empty
\* cell and the number 0 are falsy and give '0'; text that does not start
\* with a number gives NaN
parseFloat(cell) ==
  IF cell.kind = "text" THEN NaN
  ELSE IF cell.kind = "empty" THEN Number(0)
  ELSE Number(cell.value)

\* getLetterGrade of ExcelGradeUpload
getLetterGrade(score) ==
  IF score >= 85 THEN "A"
  ELSE IF score >= 80 THEN "B+"
  ELSE IF score >= 75 THEN "B"
  ELSE IF score >= 70 THEN "B-"
  ELSE IF score >= 65 THEN "C+"
  ELSE IF score >= 60 THEN "C"
  ELSE IF score >= 55 THEN "D"
  ELSE "E"

\* getLetterGrade of GradeUpload
csvGetLetterGrade(score) ==
  IF score >= 85 THEN "A"
  ELSE IF score >= 80 THEN "B+"
  ELSE IF score >= 75 THEN "B"
  ELSE IF score >= 70 THEN "B-"
  ELSE IF score >= 65 THEN "C+"
  ELSE IF score >= 60 THEN "C"
  ELSE IF score >= 55 THEN "D"
  ELSE "E"

\* faulty variant: a plain insert, which keeps the row the pair already has
upsertKeepsOld(tbl, row) == tbl \cup {row}

\* from('grades').upsert(row, { onConflict: 'student_id,course_id' }): the row
\* of the same (student_id, course_id) is replaced, every other row is kept
upsert(tbl, row) ==
  {g \in tbl : ~(g.student_id = row.student_id /\ g.course_id = row.course_id)}
    \cup {row}

\* from('students').eq('nim', ..).eq('angkatan', ..).maybeSingle()
studentByNimAngkatan(nim, angkatan) ==
  maybeSingle({s \in db_students : s.nim = nim /\ s.angkatan = angkatan})

\* from('students').eq('nim', ..).maybeSingle()
studentByNim(nim) == maybeSingle({s \in db_students : s.nim = nim})

\* from('courses').select('id').eq('code', ..).maybeSingle()
courseByCode(code) == maybeSingle({c \in db_courses : c.code = code})

\* ------------------------------------------------------- ExcelGradeUpload
\* Workbooks: the rows sheet_to_json gives, each with its NIM cell (0: none)
\* and its Nilai cell.  nim 99 and 98 are students of angkatan 2024, nim 97
\* is a student of angkatan 2023, no student has nim 55.
ExcelFile1 ==
  [rows |-> << [NIM |-> 99, Nilai |-> Num(72)],
               [NIM |-> 98, Nilai |-> Num(150)],
               [NIM |-> 98, Nilai |-> Num(0)] >>]
ExcelFile2 ==
  [rows |-> << [NIM |-> 0, Nilai |-> Num(90)],
               [NIM |-> 55, Nilai |-> Num(90)],
               [NIM |-> 99, Nilai |-> Num(90)],
               [NIM |-> 99, Nilai |-> Num(100)] >>]
ExcelFile3 ==
  [rows |-> << [NIM |-> 97, Nilai |-> Num(72)],
               [NIM |-> 99, Nilai |-> Num(0 - 5)],
               [NIM |-> 99, Nilai |-> Text] >>]
ExcelFiles == {[rows |-> <<>>], ExcelFile1, ExcelFile2, ExcelFile3}

\* handleAngkatanSelect: data.map(row => ({ nim, courseCode, angkatan, score,
\* status: 'pending' }))
PreviewRows(data, courseCode, angkatan) ==
  [i \in 1..Len(data) |->
     [nim |-> data[i].NIM,
      courseCode |-> courseCode,
      angkatan |-> angkatan,
      score |-> parseFloat(data[i].Nilai),
      status |-> "pending",
      message |-> ""]]

\* the body of the loop of handleUpload for one row: the table grades and the
\* row as pushed to processedRows.  A NaN score passes the range test (both
\* comparisons are false); it is sent as null, which the score column, a
\* number in the database types, refuses.
ExcelRow(row, grades) ==
  LET student == studentByNimAngkatan(row.nim, row.angkatan)
      course == courseByCode(row.courseCode)
  IN
  IF row.nim = 0
       \/ (~row.score.nan /\ (row.score.value < MinScore
                               \/ row.score.value > MaxScore))
  THEN [grades |-> grades,
        row |-> [row EXCEPT !.status = "error",
                            !.message = "NIM atau nilai tidak valid"]]
  ELSE IF student = Null
  THEN [grades |-> grades,
        row |-> [row EXCEPT !.status = "error",
                            !.message = "Mahasiswa tidak ditemukan"]]
  ELSE IF course = Null
  THEN [grades |-> grades,
        row |-> [row EXCEPT !.status = "error",
                            !.message = "Mata kuliah tidak ditemukan"]]
  ELSE IF row.score.nan
  THEN [grades |-> grades,
        row |-> [row EXCEPT !.status = "error", !.message = "upsertError"]]
  ELSE [grades |-> upsert(grades, [student_id |-> student.id,
                                   course_id |-> course.id,
                                   score |-> row.score.value,
                                   letter_grade |-> getLetterGrade(row.score.value)]),
        row |-> [row EXCEPT !.status = "success"]]

RECURSIVE ExcelRowsSkipping(_, _, _)
\* faulty variant: a row in error is left out of processedRows
ExcelRowsSkipping(rows, grades, processedRows) ==
  IF rows = <<>> THEN [grades |-> grades, processedRows |-> processedRows]
  ELSE LET r == ExcelRow(Head(rows), grades)
       IN ExcelRowsSkipping(Tail(rows), r.grades,
                            IF r.row.status = "error" THEN processedRows
                            ELSE Append(processedRows, r.row))

RECURSIVE ExcelRows(_, _, _)
\* for (const row of preview) { ... }
ExcelRows(rows, grades, processedRows) ==
  IF rows = <<>> THEN [grades |-> grades, processedRows |-> processedRows]
  ELSE LET r == ExcelRow(Head(rows), grades)
       IN ExcelRows(Tail(rows), r.grades, Append(processedRows, r.row))

\* handleFileChange with a file whose name ends in .xlsx or .xls
handleFileChange ==
  /\ activeTab = "excel-upload"
  /\ step = "select"
  /\ \E f \in ExcelFiles : file' = f
  /\ step' = "course"
  /\ UNCHANGED <<excelSelectedCourse, excelSelectedAngkatan, preview, uploadedRows>>
  /\ UNCHANGED <<manualVars, csvVars, activeTab>>
  /\ UNCHANGED dbVars
  /\ UNCHANGED selVars
  /\ UNCHANGED reportVars
  /\ UNCHANGED sysVars
  /\ UNCHANGED scaleVars
  /\ UNCHANGED exported
  /\ UNCHANGED studentVars
  /\ UNCHANGED roleVars

\* onClick={() => setSelectedCourse(course.code)} on a course of the list
excelSetSelectedCourse ==
  /\ activeTab = "excel-upload"
  /\ step = "course"
  /\ \E c \in db_courses : excelSelectedCourse' = c.code
  /\ UNCHANGED <<step, file, excelSelectedAngkatan, preview, uploadedRows>>
  /\ UNCHANGED <<manualVars, csvVars, activeTab>>
  /\ UNCHANGED dbVars
  /\ UNCHANGED selVars
  /\ UNCHANGED reportVars
  /\ UNCHANGED sysVars
  /\ UNCHANGED scaleVars
  /\ UNCHANGED exported
  /\ UNCHANGED studentVars
  /\ UNCHANGED roleVars

\* faulty variant: the step moves on without a selected course
handleCourseSelectUnguarded ==
  /\ activeTab = "excel-upload"
  /\ step = "course"
  /\ step' = "angkatan"
  /\ UNCHANGED <<file, excelSelectedCourse, excelSelectedAngkatan, preview, uploadedRows>>
  /\ UNCHANGED <<manualVars, csvVars, activeTab>>
  /\ UNCHANGED dbVars
  /\ UNCHANGED selVars
  /\ UNCHANGED reportVars
  /\ UNCHANGED sysVars
  /\ UNCHANGED scaleVars
  /\ UNCHANGED exported
  /\ UNCHANGED studentVars
  /\ UNCHANGED roleVars

\* handleCourseSelect
handleCourseSelect ==
  /\ activeTab = "excel-upload"
  /\ step = "course"
  /\ excelSelectedCourse # 0
  /\ step' = "angkatan"
  /\ UNCHANGED <<file, excelSelectedCourse, excelSelectedAngkatan, preview, uploadedRows>>
  /\ UNCHANGED <<manualVars, csvVars, activeTab>>
  /\ UNCHANGED dbVars
  /\ UNCHANGED selVars
  /\ UNCHANGED reportVars
  /\ UNCHANGED sysVars
  /\ UNCHANGED scaleVars
  /\ UNCHANGED exported
  /\ UNCHANGED studentVars
  /\ UNCHANGED roleVars

\* onClick={() => setSelectedAngkatan(angkatan)} on an angkatan of the list
excelSetSelectedAngkatan ==
  /\ activeTab = "excel-upload"
  /\ step = "angkatan"
  /\ \E a \in angkatanList : excelSelectedAngkatan' = a
  /\ UNCHANGED <<step, file, excelSelectedCourse, preview, uploadedRows>>
  /\ UNCHANGED <<manualVars, csvVars, activeTab>>
  /\ UNCHANGED dbVars
  /\ UNCHANGED selVars
  /\ UNCHANGED reportVars
  /\ UNCHANGED sysVars
  /\ UNCHANGED scaleVars
  /\ UNCHANGED exported
  /\ UNCHANGED studentVars
  /\ UNCHANGED roleVars

\* handleAngkatanSelect: the workbook is read into preview
handleAngkatanSelect ==
  /\ activeTab = "excel-upload"
  /\ step = "angkatan"
  /\ excelSelectedAngkatan # 0
  /\ file # Null
  /\ preview' = PreviewRows(file.rows, excelSelectedCourse, excelSelectedAngkatan)
  /\ step' = "preview"
  /\ UNCHANGED <<file, excelSelectedCourse, excelSelectedAngkatan, uploadedRows>>
  /\ UNCHANGED <<manualVars, csvVars, activeTab>>
  /\ UNCHANGED dbVars
  /\ UNCHANGED selVars
  /\ UNCHANGED reportVars
  /\ UNCHANGED sysVars
  /\ UNCHANGED scaleVars
  /\ UNCHANGED exported
  /\ UNCHANGED studentVars
  /\ UNCHANGED roleVars

\* the Kembali buttons: setStep('select'), setStep('course'), setStep('angkatan')
setStep ==
  /\ activeTab = "excel-upload"
  /\ step \in {"course", "angkatan", "preview"}
  /\ step' = IF step = "course" THEN "select"
             ELSE IF step = "angkatan" THEN "course"
             ELSE "angkatan"
  /\ UNCHANGED <<file, excelSelectedCourse, excelSelectedAngkatan, preview, uploadedRows>>
  /\ UNCHANGED <<manualVars, csvVars, activeTab>>
  /\ UNCHANGED dbVars
  /\ UNCHANGED selVars
  /\ UNCHANGED reportVars
  /\ UNCHANGED sysVars
  /\ UNCHANGED scaleVars
  /\ UNCHANGED exported
  /\ UNCHANGED studentVars
  /\ UNCHANGED roleVars

\* ExcelGradeUpload.handleUpload, from the click to setLoading(false)
handleUpload ==
  /\ activeTab = "excel-upload"
  /\ step = "preview"
  /\ IF preview = <<>>
     THEN UNCHANGED <<step, uploadedRows, db_grades>>
     ELSE LET r == ExcelRows(preview, db_grades, <<>>)
          IN /\ Cardinality(r.grades) <= MaxGrades
             /\ step' = "upload"
             /\ uploadedRows' = r.processedRows
             /\ db_grades' = r.grades
  /\ UNCHANGED <<file, excelSelectedCourse, excelSelectedAngkatan, preview>>
  /\ UNCHANGED <<manualVars, csvVars, activeTab>>
  /\ UNCHANGED <<db_students, db_courses, grading_scales>>
  /\ UNCHANGED selVars
  /\ UNCHANGED reportVars
  /\ UNCHANGED sysVars
  /\ UNCHANGED scaleVars
  /\ UNCHANGED exported
  /\ UNCHANGED studentVars
  /\ UNCHANGED roleVars

\* resetForm
resetForm ==
  /\ activeTab = "excel-upload"
  /\ step = "upload"
  /\ file' = Null
  /\ preview' = <<>>
  /\ uploadedRows' = <<>>
  /\ excelSelectedCourse' = 0
  /\ excelSelectedAngkatan' = 0
  /\ step' = "select"
  /\ UNCHANGED <<manualVars, csvVars, activeTab>>
  /\ UNCHANGED dbVars
  /\ UNCHANGED selVars
  /\ UNCHANGED reportVars
  /\ UNCHANGED sysVars
  /\ UNCHANGED scaleVars
  /\ UNCHANGED exported
  /\ UNCHANGED studentVars
  /\ UNCHANGED roleVars

\* ------------------------------------------------------- ManualGradeInput
\* what may be typed into a score input
ManualValues == {Empty, Text, Num(0 - 5), Num(0), Num(100), Num(150)}

\* fetchEnrolledStudents: the students enrolled in the course
enrolledStudents(courseId) ==
  {en.student_id : en \in {e \in SeedEnrollments : e.course_id = courseId}}

\* fetchEnrolledStudents: initialInputs, the stored score of every enrolled
\* student that has one.  gradeInputs is kept as a function over all student
\* ids; a student without an entry has the empty text, which handleSaveGrades
\* filters out like a missing entry.
initialInputs(grades, courseId) ==
  [i \in StudentIds |->
     IF i \in enrolledStudents(courseId)
          /\ \E g \in grades : g.student_id = i /\ g.course_id = courseId
     THEN Num((CHOOSE g \in grades : g.student_id = i /\ g.course_id = courseId).score)
     ELSE Empty]

\* the condition of handleScoreChange: value === '' || (!isNaN(Number(value))
\* && Number(value) >= 0 && Number(value) <= 100)
ScoreAccepted(value) ==
  \/ value.kind = "empty"
  \/ /\ value.kind = "number"
     /\ value.value >= MinScore
     /\ value.value <= MaxScore

\* Object.entries(gradeInputs).filter(...).map(...)
gradesToSave(inputs, courseId) ==
  {[student_id |-> i, course_id |-> courseId,
    score |-> inputs[i].value,
    letter_grade |-> calculateLetterGrade(inputs[i].value)] :
     i \in {j \in StudentIds : inputs[j].kind = "number"}}

RECURSIVE upsertAll(_, _)
\* upsert of an array of rows
upsertAll(tbl, rows) ==
  IF rows = {} THEN tbl
  ELSE LET r == CHOOSE x \in rows : TRUE
       IN upsertAll(upsert(tbl, r), rows \ {r})

\* <select value={selectedCourse} onChange=...> and the effect on
\* selectedCourse, which runs fetchEnrolledStudents
manualSetSelectedCourse ==
  /\ activeTab = "manual-input"
  /\ \E c \in db_courses :
       /\ manualSelectedCourse' = c.id
       /\ gradeInputs' = initialInputs(db_grades, c.id)
  /\ UNCHANGED <<excelVars, csvVars, activeTab>>
  /\ UNCHANGED dbVars
  /\ UNCHANGED selVars
  /\ UNCHANGED reportVars
  /\ UNCHANGED sysVars
  /\ UNCHANGED scaleVars
  /\ UNCHANGED exported
  /\ UNCHANGED studentVars
  /\ UNCHANGED roleVars

\* handleScoreChange on the input of an enrolled student
handleScoreChange ==
  /\ activeTab = "manual-input"
  /\ manualSelectedCourse # 0
  /\ \E studentId \in enrolledStudents(manualSelectedCourse), value \in ManualValues :
       gradeInputs' = IF ScoreAccepted(value)
                      THEN [gradeInputs EXCEPT ![studentId] = value]
                      ELSE gradeInputs
  /\ UNCHANGED manualSelectedCourse
  /\ UNCHANGED <<excelVars, csvVars, activeTab>>
  /\ UNCHANGED dbVars
  /\ UNCHANGED selVars
  /\ UNCHANGED reportVars
  /\ UNCHANGED sysVars
  /\ UNCHANGED scaleVars
  /\ UNCHANGED exported
  /\ UNCHANGED studentVars
  /\ UNCHANGED roleVars

\* ManualGradeInput.handleSaveGrades over the inputs of the form, followed by
\* its fetchEnrolledStudents
handleSaveGradesForm ==
  /\ activeTab = "manual-input"
  /\ LET rows == gradesToSave(gradeInputs, manualSelectedCourse)
     IN IF manualSelectedCourse = 0 \/ rows = {}
        THEN UNCHANGED <<db_grades, gradeInputs>>
        ELSE /\ Cardinality(upsertAll(db_grades, rows)) <= MaxGrades
             /\ db_grades' = upsertAll(db_grades, rows)
             /\ gradeInputs' = initialInputs(upsertAll(db_grades, rows),
                                             manualSelectedCourse)
  /\ UNCHANGED manualSelectedCourse
  /\ UNCHANGED <<excelVars, csvVars, activeTab>>
  /\ UNCHANGED <<db_students, db_courses, grading_scales>>
  /\ UNCHANGED selVars
  /\ UNCHANGED reportVars
  /\ UNCHANGED sysVars
  /\ UNCHANGED scaleVars
  /\ UNCHANGED exported
  /\ UNCHANGED studentVars
  /\ UNCHANGED roleVars

\* ------------------------------------------------------ GradeUpload (CSV)
\* CSV files: the rows parseCSV gives, each with its NIM (0: none), its
\* course code (0: none; no course has code 999) and its Nilai text
CsvFile1 ==
  [rows |-> << [NIM |-> 99, KodeMataKuliah |-> 101, Nilai |-> Num(72)],
               [NIM |-> 98, KodeMataKuliah |-> 101, Nilai |-> Num(0)],
               [NIM |-> 98, KodeMataKuliah |-> 102, Nilai |-> Num(100)] >>]
CsvFile2 ==
  [rows |-> << [NIM |-> 99, KodeMataKuliah |-> 102, Nilai |-> Num(150)],
               [NIM |-> 0, KodeMataKuliah |-> 101, Nilai |-> Num(90)],
               [NIM |-> 55, KodeMataKuliah |-> 101, Nilai |-> Num(90)] >>]
CsvFile3 ==
  [rows |-> << [NIM |-> 99, KodeMataKuliah |-> 0, Nilai |-> Num(90)],
               [NIM |-> 99, KodeMataKuliah |-> 999, Nilai |-> Num(80)],
               [NIM |-> 99, KodeMataKuliah |-> 101, Nilai |-> Text] >>]
CsvFiles == {CsvFile1, CsvFile2, CsvFile3}

\* the body of the loop of GradeUpload.handleUpload for one row.  The table
\* grades of the write paths is not among the migrations, so whether it
\* refuses a score outside 0..100 is not known: checked says whether it does.
CsvRow(row, grades, checked) ==
  LET nim == row.NIM
      courseCode == row.KodeMataKuliah
      score == parseFloat(row.Nilai)
      student == studentByNim(nim)
      course == courseByCode(courseCode)
  IN
  IF nim = 0 \/ courseCode = 0 \/ score.nan \/ score.value = 0
  THEN [grades |-> grades, ok |-> FALSE]
  ELSE IF student = Null
  THEN [grades |-> grades, ok |-> FALSE]
  ELSE IF course = Null
  THEN [grades |-> grades, ok |-> FALSE]
  ELSE IF checked /\ (score.value < MinScore \/ score.value > MaxScore)
  THEN [grades |-> grades, ok |-> FALSE]
  ELSE [grades |-> upsert(grades, [student_id |-> student.id,
                                   course_id |-> course.id,
                                   score |-> score.value,
                                   letter_grade |-> csvGetLetterGrade(score.value)]),
        ok |-> TRUE]

RECURSIVE CsvRows(_, _, _, _)
\* for (const row of csvData) { ... successCount++ / failedCount++ }
CsvRows(rows, grades, stats, checked) ==
  IF rows = <<>> THEN [grades |-> grades, stats |-> stats]
  ELSE LET r == CsvRow(Head(rows), grades, checked)
       IN CsvRows(Tail(rows), r.grades,
                  IF r.ok THEN [stats EXCEPT !.success = @ + 1]
                  ELSE [stats EXCEPT !.failed = @ + 1],
                  checked)

\* GradeUpload.handleFileChange with a file of type text/csv
csvHandleFileChange ==
  /\ activeTab = "grade-upload"
  /\ \E f \in CsvFiles : csvFile' = f
  /\ UNCHANGED uploadStats
  /\ UNCHANGED <<excelVars, manualVars, activeTab>>
  /\ UNCHANGED dbVars
  /\ UNCHANGED selVars
  /\ UNCHANGED reportVars
  /\ UNCHANGED sysVars
  /\ UNCHANGED scaleVars
  /\ UNCHANGED exported
  /\ UNCHANGED studentVars
  /\ UNCHANGED roleVars

\* GradeUpload.handleUpload
csvHandleUpload ==
  /\ activeTab = "grade-upload"
  /\ csvFile # Null
  /\ \E checked \in BOOLEAN :
       LET r == CsvRows(csvFile.rows, db_grades,
                        [success |-> 0, failed |-> 0], checked)
       IN /\ Cardinality(r.grades) <= MaxGrades
          /\ db_grades' = r.grades
          /\ uploadStats' = r.stats
  /\ csvFile' = Null
  /\ UNCHANGED <<excelVars, manualVars, activeTab>>
  /\ UNCHANGED <<db_students, db_courses, grading_scales>>
  /\ UNCHANGED selVars
  /\ UNCHANGED reportVars
  /\ UNCHANGED sysVars
  /\ UNCHANGED scaleVars
  /\ UNCHANGED exported
  /\ UNCHANGED studentVars
  /\ UNCHANGED roleVars

NextGrades ==
  \/ setActiveTab
  \/ handleFileChange
  \/ excelSetSelectedCourse
  \/ handleCourseSelect
  \/ excelSetSelectedAngkatan
  \/ handleAngkatanSelect
  \/ setStep
  \/ handleUpload
  \/ resetForm
  \/ manualSetSelectedCourse
  \/ handleScoreChange
  \/ handleSaveGradesForm
  \/ csvHandleFileChange
  \/ csvHandleUpload

SpecGrades == Init /\ [][NextGrades]_vars

\* ------------------------------------------------- Dashboard.calculateGPA
\* gradePoints[grade.letter_grade] || 0, in hundredths
gradePoints(letter_grade) ==
  CASE letter_grade = "A" -> 400
    [] letter_grade = "A-" -> 370
    [] letter_grade = "B+" -> 330
    [] letter_grade = "B" -> 300
    [] letter_grade = "B-" -> 270
    [] letter_grade = "C+" -> 230
    [] letter_grade = "C" -> 200
    [] letter_grade = "D" -> 100
    [] letter_grade = "E" -> 0
    [] OTHER -> 0

\* grade.course?.credits || 3
creditsOrDefault(grade, coursesTbl) ==
  LET course == maybeSingle({c \in coursesTbl : c.id = grade.course_id})
  IN IF course = Null \/ course.credits = 0 THEN 3 ELSE course.credits

RECURSIVE reduceGrades(_, _)
\* the two grades.reduce(...) of calculateGPA
reduceGrades(grades, coursesTbl) ==
  IF grades = {} THEN [totalPoints |-> 0, totalCredits |-> 0]
  ELSE LET grade == CHOOSE g \in grades : TRUE
           r == reduceGrades(grades \ {grade}, coursesTbl)
           credits == creditsOrDefault(grade, coursesTbl)
       IN [totalPoints |-> r.totalPoints + gradePoints(grade.letter_grade) * credits,
           totalCredits |-> r.totalCredits + credits]

\* (n / d).toFixed(2) of a value kept in hundredths: the nearest hundredth
toFixed(n, d) == (2 * n + d) \div (2 * d)

\* Dashboard.calculateGPA over the grade rows of the signed-in student, in
\* hundredths ('0.00' is 0)
calculateGPA(grades, coursesTbl) ==
  IF grades = {} THEN 0
  ELSE LET r == reduceGrades(grades, coursesTbl)
       IN toFixed(r.totalPoints, r.totalCredits)

\* ====================================================== inactivity timer
\* AuthProvider and AdminAuthProvider: the effect on [user] that signs the
\* user out after INACTIVITY_TIMEOUT without an activity event.  Time is
\* counted in minutes; a timer that is due fires before the clock moves on.
\* callback[p] is where the callback of the last timer of provider p is:
\* "none" while the timer is pending, "signOut" while it awaits signOut(),
\* "alerted" after its alert, "failed" when signOut() threw.
appVars == <<dbVars, activeTab, selVars, reportVars, excelVars, manualVars, csvVars,
             bulkVars>>

\* faulty variant: the pending timer is not cleared before the new one is set
resetTimerNoClear(ts, p) ==
  ts \cup {[provider |-> p, remaining |-> INACTIVITY_TIMEOUT]}

\* resetTimer: clearTimeout(inactivityTimer), then setTimeout(...,
\* INACTIVITY_TIMEOUT)
resetTimer(ts, p) ==
  {t \in ts : t.provider # p}
    \cup {[provider |-> p, remaining |-> INACTIVITY_TIMEOUT]}

RECURSIVE resetTimers(_, _)
\* resetTimer of every provider of P
resetTimers(ts, P) ==
  IF P = {} THEN ts
  ELSE LET p == CHOOSE x \in P : TRUE
       IN resetTimers(resetTimer(ts, p), P \ {p})

\* the cleanup of the effect: clearTimeout(inactivityTimer)
cleanup(ts, P) == {t \in ts : t.provider \notin P}

\* signIn that succeeds: onAuthStateChange gives both providers the user, and
\* the effect of each runs resetTimer().  The click that submits the form is
\* the last activity.
signIn ==
  /\ mounted /\ ~session
  /\ session' = TRUE
  /\ user' = [p \in Providers |-> TRUE]
  /\ timers' = resetTimers(timers, Providers)
  /\ callback' = [p \in Providers |-> "none"]
  /\ idle' = 0
  /\ UNCHANGED <<mounted, now>>
  /\ UNCHANGED appVars
  /\ UNCHANGED scaleVars
  /\ UNCHANGED exported
  /\ UNCHANGED studentVars
  /\ UNCHANGED roleVars

\* one of mousedown, mousemove, keypress, scroll, touchstart, click: the
\* listener of every provider that has a user runs resetTimer
activity ==
  /\ mounted
  /\ timers' = resetTimers(timers, {p \in Providers : user[p]})
  /\ callback' = [p \in Providers |->
                    IF user[p] /\ callback[p] # "signOut" THEN "none"
                    ELSE callback[p]]
  /\ idle' = 0
  /\ UNCHANGED <<mounted, session, user, now>>
  /\ UNCHANGED appVars
  /\ UNCHANGED scaleVars
  /\ UNCHANGED exported
  /\ UNCHANGED studentVars
  /\ UNCHANGED roleVars

\* a minute passes; no timer is due
tick ==
  /\ now < MaxTime
  /\ \A t \in timers : t.remaining > 0
  /\ now' = now + 1
  /\ idle' = idle + 1
  /\ timers' = {[t EXCEPT !.remaining = @ - 1] : t \in timers}
  /\ UNCHANGED <<mounted, session, user, callback>>
  /\ UNCHANGED appVars
  /\ UNCHANGED scaleVars
  /\ UNCHANGED exported
  /\ UNCHANGED studentVars
  /\ UNCHANGED roleVars

\* the timer of a provider is due: its callback starts and calls signOut()
timerFires ==
  /\ \E t \in timers :
       /\ t.remaining = 0
       /\ timers' = timers \ {t}
       /\ callback' = [callback EXCEPT ![t.provider] = "signOut"]
  /\ UNCHANGED <<mounted, session, user, now, idle>>
  /\ UNCHANGED appVars
  /\ UNCHANGED scaleVars
  /\ UNCHANGED exported
  /\ UNCHANGED studentVars
  /\ UNCHANGED roleVars

\* await signOut() returns: the session is gone, onAuthStateChange sets the
\* user of both providers to null, the cleanup of each effect runs, and the
\* callback goes on to alert('You have been logged out due to inactivity.')
signOutResolves ==
  /\ \E p \in Providers :
       /\ callback[p] = "signOut"
       /\ callback' = [callback EXCEPT ![p] = "alerted"]
  /\ session' = FALSE
  /\ user' = [p \in Providers |-> FALSE]
  /\ timers' = cleanup(timers, Providers)
  /\ UNCHANGED <<mounted, now, idle>>
  /\ UNCHANGED appVars
  /\ UNCHANGED scaleVars
  /\ UNCHANGED exported
  /\ UNCHANGED studentVars
  /\ UNCHANGED roleVars

\* supabase.auth.signOut() returns an error: signOut throws, the callback
\* ends there and alert is not reached; the session stays
signOutRejects ==
  /\ \E p \in Providers :
       /\ callback[p] = "signOut"
       /\ callback' = [callback EXCEPT ![p] = "failed"]
  /\ UNCHANGED <<mounted, session, user, timers, now, idle>>
  /\ UNCHANGED appVars
  /\ UNCHANGED scaleVars
  /\ UNCHANGED exported
  /\ UNCHANGED studentVars
  /\ UNCHANGED roleVars

\* the Logout button of Dashboard or AdminDashboard, signOut succeeding
logout ==
  /\ mounted /\ session
  /\ session' = FALSE
  /\ user' = [p \in Providers |-> FALSE]
  /\ timers' = cleanup(timers, Providers)
  /\ idle' = 0
  /\ UNCHANGED <<mounted, callback, now>>
  /\ UNCHANGED appVars
  /\ UNCHANGED scaleVars
  /\ UNCHANGED exported
  /\ UNCHANGED studentVars
  /\ UNCHANGED roleVars

\* onAuthStateChange with a session while signed in (the token was
\* refreshed): setUser gets a new user object, so the effect on [user] of
\* each provider is cleaned up and run again
onAuthStateChange ==
  /\ mounted /\ session
  /\ user' = [p \in Providers |-> TRUE]
  /\ timers' = resetTimers(cleanup(timers, Providers), Providers)
  /\ callback' = [p \in Providers |->
                    IF callback[p] # "signOut" THEN "none" ELSE callback[p]]
  /\ UNCHANGED <<mounted, session, now, idle>>
  /\ UNCHANGED appVars
  /\ UNCHANGED scaleVars
  /\ UNCHANGED exported
  /\ UNCHANGED studentVars
  /\ UNCHANGED roleVars

\* the page is closed: the providers unmount and the cleanups run
unmount ==
  /\ mounted
  /\ mounted' = FALSE
  /\ user' = [p \in Providers |-> FALSE]
  /\ timers' = cleanup(timers, Providers)
  /\ callback' = [p \in Providers |-> "none"]
  /\ UNCHANGED <<session, now, idle>>
  /\ UNCHANGED appVars
  /\ UNCHANGED scaleVars
  /\ UNCHANGED exported
  /\ UNCHANGED studentVars
  /\ UNCHANGED roleVars

\* the page is opened again: getSession() gives the stored session
mount ==
  /\ ~mounted
  /\ mounted' = TRUE
  /\ user' = [p \in Providers |-> session]
  /\ timers' = IF session THEN resetTimers(timers, Providers) ELSE timers
  /\ idle' = 0
  /\ UNCHANGED <<session, callback, now>>
  /\ UNCHANGED appVars
  /\ UNCHANGED scaleVars
  /\ UNCHANGED exported
  /\ UNCHANGED studentVars
  /\ UNCHANGED roleVars

NextAuth ==
  \/ signIn
  \/ activity
  \/ tick
  \/ timerFires
  \/ signOutResolves
  \/ signOutRejects
  \/ logout
  \/ onAuthStateChange
  \/ unmount
  \/ mount

SpecAuth == Init /\ [][NextAuth]_vars

\* ====================================================== bulk enrollment
\* EnrollmentManagement with its BulkEnrollment panel, and
\* BulkEnrollmentByCurriculum.  The admin is the only writer of the table.

\* id uuid DEFAULT gen_random_uuid(): an id that no row of the table has
newEnrollmentId(tbl, sid, cid) ==
  IF \A r \in tbl : r.id # 10 * sid + cid THEN 10 * sid + cid
  ELSE 1 + (CHOOSE m \in {r.id : r \in tbl} : \A r \in tbl : m >= r.id)

\* .from('enrollments').insert({ student_id, course_id }) under
\* UNIQUE(student_id, course_id): the row is refused when the pair is there
insertEnrollment(tbl, sid, cid) ==
  IF \E r \in tbl : r.student_id = sid /\ r.course_id = cid
  THEN [error |-> TRUE, table |-> tbl]
  ELSE [error |-> FALSE,
        table |-> tbl \cup {[id |-> newEnrollmentId(tbl, sid, cid),
                             student_id |-> sid, course_id |-> cid]}]

\* faulty variant: the enrollment is not looked up before the insert
existingNever(tbl, sid, cid) == Null

\* .select('id').eq('student_id', ...).eq('course_id', ...).maybeSingle()
existing(tbl, sid, cid) ==
  maybeSingle({r \in tbl : r.student_id = sid /\ r.course_id = cid})

\* students.filter(s => s.angkatan === selectedAngkatan) of the students
\* loaded with .order('angkatan, nim')
filteredStudents(angkatan) ==
  IF angkatan = 0 THEN <<>>
  ELSE OrderByNim({s \in db_students : s.angkatan = angkatan})

NoResult == [success |-> <<>>, failed |-> <<>>, skipped |-> <<>>]

RECURSIVE enrollStudents(_, _, _, _, _)
\* the loop of handleBulkEnroll over filteredStudents; lost is the set of
\* insert requests that come back with an error of the connection
enrollStudents(list, courseId, tbl, res, lost) ==
  IF list = <<>> THEN [table |-> tbl, result |-> res]
  ELSE
    LET student == Head(list)
        ins == insertEnrollment(tbl, student.id, courseId)
    IN IF existing(tbl, student.id, courseId) # Null
       THEN enrollStudents(Tail(list), courseId, tbl,
                           [res EXCEPT !.skipped = Append(@, student.id)], lost)
       ELSE IF [student_id |-> student.id, course_id |-> courseId] \in lost
                 \/ ins.error
       THEN enrollStudents(Tail(list), courseId, tbl,
                           [res EXCEPT !.failed = Append(@, student.id)], lost)
       ELSE enrollStudents(Tail(list), courseId, ins.table,
                           [res EXCEPT !.success = Append(@, student.id)], lost)

\* the "Bulk Enrollment" / "Hide Bulk Enrollment" button; the panel keeps no
\* state while it is hidden
setShowBulkEnrollment ==
  /\ activeTab = "enrollments"
  /\ showBulkEnrollment' = ~showBulkEnrollment
  /\ bulkSelectedCourse' = 0
  /\ bulkSelectedAngkatan' = 0
  /\ bulkResult' = Null
  /\ UNCHANGED <<db_enrollments, curriculumVars, authVars>>
  /\ UNCHANGED <<dbVars, activeTab, selVars, reportVars, excelVars, manualVars, csvVars,
               courseVars>>
  /\ UNCHANGED scaleVars
  /\ UNCHANGED exported
  /\ UNCHANGED studentVars
  /\ UNCHANGED roleVars

\* <select value={selectedCourse} onChange=...>
bulkSetSelectedCourse ==
  /\ activeTab = "enrollments" /\ showBulkEnrollment
  /\ \E c \in {0} \cup {r.id : r \in db_courses} : bulkSelectedCourse' = c
  /\ UNCHANGED <<showBulkEnrollment, bulkSelectedAngkatan, bulkResult>>
  /\ UNCHANGED <<db_enrollments, curriculumVars, authVars>>
  /\ UNCHANGED <<dbVars, activeTab, selVars, reportVars, excelVars, manualVars, csvVars,
               courseVars>>
  /\ UNCHANGED scaleVars
  /\ UNCHANGED exported
  /\ UNCHANGED studentVars
  /\ UNCHANGED roleVars

\* <select value={selectedAngkatan} onChange=...>
bulkSetSelectedAngkatan ==
  /\ activeTab = "enrollments" /\ showBulkEnrollment
  /\ \E a \in {0} \cup angkatanList : bulkSelectedAngkatan' = a
  /\ UNCHANGED <<showBulkEnrollment, bulkSelectedCourse, bulkResult>>
  /\ UNCHANGED <<db_enrollments, curriculumVars, authVars>>
  /\ UNCHANGED <<dbVars, activeTab, selVars, reportVars, excelVars, manualVars, csvVars,
               courseVars>>
  /\ UNCHANGED scaleVars
  /\ UNCHANGED exported
  /\ UNCHANGED studentVars
  /\ UNCHANGED roleVars

\* BulkEnrollment.handleBulkEnroll, the confirm dialog accepted
handleBulkEnroll ==
  /\ activeTab = "enrollments" /\ showBulkEnrollment
  /\ bulkSelectedCourse # 0 /\ bulkSelectedAngkatan # 0
  /\ filteredStudents(bulkSelectedAngkatan) # <<>>
  /\ \E lost \in LostInputs :
       LET r == enrollStudents(filteredStudents(bulkSelectedAngkatan),
                               bulkSelectedCourse, db_enrollments, NoResult, lost)
       IN /\ db_enrollments' = r.table
          /\ bulkResult' = r.result
  /\ UNCHANGED <<showBulkEnrollment, bulkSelectedCourse, bulkSelectedAngkatan>>
  /\ UNCHANGED <<curriculumVars, authVars>>
  /\ UNCHANGED <<dbVars, activeTab, selVars, reportVars, excelVars, manualVars, csvVars,
               courseVars>>
  /\ UNCHANGED scaleVars
  /\ UNCHANGED exported
  /\ UNCHANGED studentVars
  /\ UNCHANGED roleVars

\* BulkEnrollment.resetForm
bulkResetForm ==
  /\ activeTab = "enrollments" /\ showBulkEnrollment
  /\ bulkSelectedCourse' = 0
  /\ bulkSelectedAngkatan' = 0
  /\ bulkResult' = Null
  /\ UNCHANGED <<showBulkEnrollment, db_enrollments, curriculumVars, authVars>>
  /\ UNCHANGED <<dbVars, activeTab, selVars, reportVars, excelVars, manualVars, csvVars,
               courseVars>>
  /\ UNCHANGED scaleVars
  /\ UNCHANGED exported
  /\ UNCHANGED studentVars
  /\ UNCHANGED roleVars

\* EnrollmentManagement.handleSubmit: the form of one enrollment; a refused
\* insert only sets the error text
enrollmentHandleSubmit ==
  /\ activeTab = "enrollments" /\ ~showBulkEnrollment
  /\ \E s \in db_students, c \in db_courses :
       db_enrollments' = insertEnrollment(db_enrollments, s.id, c.id).table
  /\ UNCHANGED <<enrollVars, curriculumVars, authVars>>
  /\ UNCHANGED <<dbVars, activeTab, selVars, reportVars, excelVars, manualVars, csvVars,
               courseVars>>
  /\ UNCHANGED scaleVars
  /\ UNCHANGED exported
  /\ UNCHANGED studentVars
  /\ UNCHANGED roleVars

\* EnrollmentManagement.handleDelete, the confirm dialog accepted
enrollmentHandleDelete ==
  /\ activeTab = "enrollments"
  /\ \E row \in db_enrollments : db_enrollments' = db_enrollments \ {row}
  /\ UNCHANGED <<enrollVars, curriculumVars, authVars>>
  /\ UNCHANGED <<dbVars, activeTab, selVars, reportVars, excelVars, manualVars, csvVars,
               courseVars>>
  /\ UNCHANGED scaleVars
  /\ UNCHANGED exported
  /\ UNCHANGED studentVars
  /\ UNCHANGED roleVars

\* ---------------------------------------- BulkEnrollmentByCurriculum
\* [...new Set(coursesRes.data.map(c => c.curriculum))]
curriculumList == {c.curriculum : c \in db_courses}

\* loadCoursesForCurriculum: .eq('curriculum', curriculum).order('semester')
\* .order('code')
coursesInCurriculum(curriculum) ==
  IF curriculum = 0 THEN <<>>
  ELSE LET rows == {c \in db_courses : c.curriculum = curriculum}
       IN OrderByKey(rows, [c \in rows |-> 1000 * c.semester + c.code])

\* loadStudentsForAngkatan: .eq('angkatan', angkatan).order('nim')
studentsInAngkatan(angkatan) ==
  IF angkatan = 0 THEN <<>>
  ELSE OrderByNim({s \in db_students : s.angkatan = angkatan})

RECURSIVE enrollCourse(_, _, _, _, _)
\* the inner loop of handleBulkEnrollByCurriculum: the students of one course
enrollCourse(list, course, tbl, detail, lost) ==
  IF list = <<>> THEN [table |-> tbl, detail |-> detail]
  ELSE
    LET student == Head(list)
        ins == insertEnrollment(tbl, student.id, course.id)
    IN IF existing(tbl, student.id, course.id) # Null
       THEN enrollCourse(Tail(list), course, tbl,
                         [detail EXCEPT !.skipped = @ + 1], lost)
       ELSE IF [student_id |-> student.id, course_id |-> course.id] \in lost
                 \/ ins.error
       THEN enrollCourse(Tail(list), course, tbl,
                         [detail EXCEPT !.failed = @ + 1], lost)
       ELSE enrollCourse(Tail(list), course, ins.table,
                         [detail EXCEPT !.success = @ + 1], lost)

RECURSIVE enrollCurriculum(_, _, _, _, _)
\* the outer loop: one courseDetails entry per course
enrollCurriculum(courseList, students, tbl, courseDetails, lost) ==
  IF courseList = <<>> THEN [table |-> tbl, courseDetails |-> courseDetails]
  ELSE
    LET course == Head(courseList)
        r == enrollCourse(students, course, tbl,
                          [course |-> course.id, success |-> 0, failed |-> 0,
                           skipped |-> 0], lost)
    IN enrollCurriculum(Tail(courseList), students, r.table,
                        Append(courseDetails, r.detail), lost)

\* <select value={selectedCurriculum} onChange=...>
setSelectedCurriculum ==
  /\ activeTab = "bulk-curriculum"
  /\ \E c \in {0} \cup curriculumList : selectedCurriculum' = c
  /\ UNCHANGED <<curriculumSelectedAngkatan, curriculumResult>>
  /\ UNCHANGED <<db_enrollments, enrollVars, authVars>>
  /\ UNCHANGED <<dbVars, activeTab, selVars, reportVars, excelVars, manualVars, csvVars,
               courseVars>>
  /\ UNCHANGED scaleVars
  /\ UNCHANGED exported
  /\ UNCHANGED studentVars
  /\ UNCHANGED roleVars

\* <select value={selectedAngkatan} onChange=...>
curriculumSetSelectedAngkatan ==
  /\ activeTab = "bulk-curriculum"
  /\ \E a \in {0} \cup angkatanList : curriculumSelectedAngkatan' = a
  /\ UNCHANGED <<selectedCurriculum, curriculumResult>>
  /\ UNCHANGED <<db_enrollments, enrollVars, authVars>>
  /\ UNCHANGED <<dbVars, activeTab, selVars, reportVars, excelVars, manualVars, csvVars,
               courseVars>>
  /\ UNCHANGED scaleVars
  /\ UNCHANGED exported
  /\ UNCHANGED studentVars
  /\ UNCHANGED roleVars

\* BulkEnrollmentByCurriculum.handleBulkEnrollByCurriculum, the confirm
\* dialog accepted
handleBulkEnrollByCurriculum ==
  /\ activeTab = "bulk-curriculum"
  /\ selectedCurriculum # 0 /\ curriculumSelectedAngkatan # 0
  /\ coursesInCurriculum(selectedCurriculum) # <<>>
  /\ studentsInAngkatan(curriculumSelectedAngkatan) # <<>>
  /\ \E lost \in LostInputs :
       LET r == enrollCurriculum(coursesInCurriculum(selectedCurriculum),
                                 studentsInAngkatan(curriculumSelectedAngkatan),
                                 db_enrollments, <<>>, lost)
       IN /\ db_enrollments' = r.table
          /\ curriculumResult' = r.courseDetails
  /\ UNCHANGED <<selectedCurriculum, curriculumSelectedAngkatan>>
  /\ UNCHANGED <<enrollVars, authVars>>
  /\ UNCHANGED <<dbVars, activeTab, selVars, reportVars, excelVars, manualVars, csvVars,
               courseVars>>
  /\ UNCHANGED scaleVars
  /\ UNCHANGED exported
  /\ UNCHANGED studentVars
  /\ UNCHANGED roleVars

\* BulkEnrollmentByCurriculum.resetForm
curriculumResetForm ==
  /\ activeTab = "bulk-curriculum"
  /\ selectedCurriculum' = 0
  /\ curriculumSelectedAngkatan' = 0
  /\ curriculumResult' = Null
  /\ UNCHANGED <<db_enrollments, enrollVars, authVars>>
  /\ UNCHANGED <<dbVars, activeTab, selVars, reportVars, excelVars, manualVars, csvVars,
               courseVars>>
  /\ UNCHANGED scaleVars
  /\ UNCHANGED exported
  /\ UNCHANGED studentVars
  /\ UNCHANGED roleVars

NextEnroll ==
  \/ setActiveTab
  \/ setShowBulkEnrollment
  \/ bulkSetSelectedCourse
  \/ bulkSetSelectedAngkatan
  \/ handleBulkEnroll
  \/ bulkResetForm
  \/ enrollmentHandleSubmit
  \/ enrollmentHandleDelete
  \/ setSelectedCurriculum
  \/ curriculumSetSelectedAngkatan
  \/ handleBulkEnrollByCurriculum
  \/ curriculumResetForm

SpecEnroll == Init /\ [][NextEnroll]_vars

\* ==================================================== bulk course upload
\* BulkCourseUpload, and the form of CourseManagement that adds one course.
\* A sheet row is [code, name, credits, curriculum, semester]: code and
\* curriculum are numbers with 0 for an empty cell, the other three are
\* cells.  The table keeps no name, so a name is only looked at when the
\* sheet is validated.
CourseSheet1 ==
  [rows |-> << [code |-> 101, name |-> Text, credits |-> Num(4),
                curriculum |-> 2024, semester |-> Num(1)],
               [code |-> 301, name |-> Text, credits |-> Num(2),
                curriculum |-> 2024, semester |-> Empty] >>]
\* a code of the table under another curriculum
CourseSheet2 ==
  [rows |-> << [code |-> 101, name |-> Text, credits |-> Num(3),
                curriculum |-> 2023, semester |-> Num(2)] >>]
\* the same code and curriculum twice
CourseSheet3 ==
  [rows |-> << [code |-> 102, name |-> Text, credits |-> Num(2),
                curriculum |-> 2024, semester |-> Num(1)],
               [code |-> 102, name |-> Text, credits |-> Num(3),
                curriculum |-> 2024, semester |-> Num(1)] >>]
\* rows that validateData refuses
CourseSheet4 ==
  [rows |-> << [code |-> 0, name |-> Text, credits |-> Num(3),
                curriculum |-> 2024, semester |-> Num(1)],
               [code |-> 302, name |-> Empty, credits |-> Num(3),
                curriculum |-> 2024, semester |-> Num(1)],
               [code |-> 303, name |-> Text, credits |-> Num(9),
                curriculum |-> 2024, semester |-> Num(1)],
               [code |-> 304, name |-> Text, credits |-> Text,
                curriculum |-> 0, semester |-> Num(9)] >>]
CourseSheets == {CourseSheet1, CourseSheet2, CourseSheet3, CourseSheet4,
                 [rows |-> <<>>]}

\* the courses the form of CourseManagement is filled with
CourseForms ==
  {[code |-> 101, credits |-> 3, semester |-> 1, curriculum |-> 2024],
   [code |-> 301, credits |-> 3, semester |-> 1, curriculum |-> 2023]}

\* !credits || isNaN(credits) || credits < 1 || credits > 8
creditsRefused(cell) ==
  \/ cell.kind # "number"
  \/ cell.value < 1
  \/ cell.value > 8

\* semester && (isNaN(semester) || semester < 1 || semester > 8)
semesterRefused(cell) ==
  /\ cell # Empty
  /\ cell # Num(0)
  /\ \/ cell.kind # "number"
     \/ cell.value < 1
     \/ cell.value > 8

rowRefused(row) ==
  \/ row.code = 0
  \/ row.name = Empty
  \/ creditsRefused(row.credits)
  \/ row.curriculum = 0
  \/ semesterRefused(row.semester)

RECURSIVE validRows(_)
\* data.forEach: the rows pushed to validData; semester 0 is undefined
validRows(data) ==
  IF data = <<>> THEN <<>>
  ELSE LET row == Head(data)
       IN IF rowRefused(row) THEN validRows(Tail(data))
          ELSE << [code |-> row.code, credits |-> row.credits.value,
                   curriculum |-> row.curriculum,
                   semester |-> row.semester.value] >> \o validRows(Tail(data))

\* validData.reduce: one message per row that has a later row with its code
\* and curriculum
duplicates(validData) ==
  {idx \in 1..Len(validData) :
     \E i \in 1..Len(validData) :
       /\ i > idx
       /\ validData[i].code = validData[idx].code
       /\ validData[i].curriculum = validData[idx].curriculum}

\* validateData; errors is the number of messages
validateData(data) ==
  IF Len(data) = 0 THEN [valid |-> FALSE, errors |-> 1, data |-> <<>>]
  ELSE LET validData == validRows(data)
           errors == (Len(data) - Len(validData))
                       + Cardinality(duplicates(validData))
       IN [valid |-> errors = 0, errors |-> errors, data |-> validData]

\* id uuid DEFAULT gen_random_uuid()
newCourseId(tbl) ==
  IF tbl = {} THEN 1
  ELSE 1 + (CHOOSE m \in {r.id : r \in tbl} : \A r \in tbl : m >= r.id)

\* .from('courses').insert(...).  The one CREATE TABLE courses at hand has
\* code UNIQUE, but it is not the table the components write (it has sks for
\* credits and no academic_year), so the constraint may or may not be there:
\* codeUnique says whether it is.
insertCourse(tbl, course, codeUnique) ==
  IF codeUnique /\ \E r \in tbl : r.code = course.code
  THEN [error |-> TRUE, table |-> tbl]
  ELSE [error |-> FALSE,
        table |-> tbl \cup {[id |-> newCourseId(tbl), code |-> course.code,
                             credits |-> course.credits,
                             semester |-> course.semester,
                             curriculum |-> course.curriculum]}]

\* .update({ name, credits, academic_year, semester }).eq('id', existing.id)
updateCourse(tbl, id, course) ==
  {IF r.id = id
   THEN [r EXCEPT !.credits = course.credits, !.semester = course.semester]
   ELSE r : r \in tbl}

\* course.semester || 1
semesterOrDefault(semester) == IF semester = 0 THEN 1 ELSE semester

RECURSIVE uploadCourses(_, _, _, _)
\* the loop of BulkCourseUpload.handleUpload over validationResult.data
uploadCourses(list, tbl, res, codeUnique) ==
  IF list = <<>> THEN [table |-> tbl, result |-> res]
  ELSE
    LET course == [Head(list) EXCEPT !.semester = semesterOrDefault(@)]
        existingCourse ==
          maybeSingle({r \in tbl : r.code = course.code
                                     /\ r.curriculum = course.curriculum})
        ins == insertCourse(tbl, course, codeUnique)
    IN IF existingCourse # Null
       THEN uploadCourses(Tail(list), updateCourse(tbl, existingCourse.id, course),
                          [res EXCEPT !.success = @ + 1], codeUnique)
       ELSE IF ins.error
       THEN uploadCourses(Tail(list), tbl,
                          [res EXCEPT !.failed = @ + 1], codeUnique)
       ELSE uploadCourses(Tail(list), ins.table,
                          [res EXCEPT !.success = @ + 1], codeUnique)

\* BulkCourseUpload.handleFileChange; the file input is never disabled
courseHandleFileChange ==
  /\ activeTab = "bulk-course"
  /\ \E f \in CourseSheets : courseFile' = f
  /\ validationResult' = Null
  /\ uploadResult' = Null
  /\ UNCHANGED <<uploading, validating>>
  /\ UNCHANGED <<dbVars, activeTab, selVars, reportVars, excelVars, manualVars, csvVars>>
  /\ UNCHANGED <<db_enrollments, enrollVars, curriculumVars, authVars>>
  /\ UNCHANGED scaleVars
  /\ UNCHANGED exported
  /\ UNCHANGED studentVars
  /\ UNCHANGED roleVars

\* BulkCourseUpload.handleValidate up to await file.arrayBuffer(): the
\* button is disabled while uploading is set; the handler reads the file of
\* the render it was clicked in
handleValidate ==
  /\ activeTab = "bulk-course"
  /\ courseFile # Null
  /\ ~uploading
  /\ uploading' = TRUE
  /\ validationResult' = Null
  /\ validating' = courseFile
  /\ UNCHANGED <<courseFile, uploadResult>>
  /\ UNCHANGED <<dbVars, activeTab, selVars, reportVars, excelVars, manualVars, csvVars>>
  /\ UNCHANGED <<db_enrollments, enrollVars, curriculumVars, authVars>>
  /\ UNCHANGED scaleVars
  /\ UNCHANGED exported
  /\ UNCHANGED studentVars
  /\ UNCHANGED roleVars

\* BulkCourseUpload.handleValidate after the file was read:
\* setValidationResult(validateData(jsonData)), setUploading(false)
handleValidateResolves ==
  /\ activeTab = "bulk-course"
  /\ validating # Null
  /\ validationResult' = validateData(validating.rows)
  /\ uploading' = FALSE
  /\ validating' = Null
  /\ UNCHANGED <<courseFile, uploadResult>>
  /\ UNCHANGED <<dbVars, activeTab, selVars, reportVars, excelVars, manualVars, csvVars>>
  /\ UNCHANGED <<db_enrollments, enrollVars, curriculumVars, authVars>>
  /\ UNCHANGED scaleVars
  /\ UNCHANGED exported
  /\ UNCHANGED studentVars
  /\ UNCHANGED roleVars

\* BulkCourseUpload.handleUpload
courseHandleUpload ==
  /\ activeTab = "bulk-course"
  /\ validationResult # Null
  /\ validationResult.valid
  /\ ~uploading
  /\ UNCHANGED <<uploading, validating>>
  /\ \E codeUnique \in BOOLEAN :
       LET r == uploadCourses(validationResult.data, db_courses,
                              [success |-> 0, failed |-> 0], codeUnique)
       IN /\ Cardinality(r.table) <= MaxCourses
          /\ db_courses' = r.table
          /\ uploadResult' = r.result
          /\ IF r.result.failed = 0
             THEN courseFile' = Null /\ validationResult' = Null
             ELSE UNCHANGED <<courseFile, validationResult>>
  /\ UNCHANGED <<db_students, db_grades, grading_scales>>
  /\ UNCHANGED <<activeTab, selVars, reportVars, excelVars, manualVars, csvVars>>
  /\ UNCHANGED <<db_enrollments, enrollVars, curriculumVars, authVars>>
  /\ UNCHANGED scaleVars
  /\ UNCHANGED exported
  /\ UNCHANGED studentVars
  /\ UNCHANGED roleVars

\* CourseManagement.handleSubmit with no course being edited: the form is
\* inserted as it is
courseHandleSubmit ==
  /\ activeTab = "courses"
  /\ Cardinality(db_courses) < MaxCourses
  /\ \E form \in CourseForms, codeUnique \in BOOLEAN :
       db_courses' = insertCourse(db_courses, form, codeUnique).table
  /\ UNCHANGED <<db_students, db_grades, grading_scales>>
  /\ UNCHANGED <<activeTab, selVars, reportVars, excelVars, manualVars, csvVars>>
  /\ UNCHANGED <<bulkVars, authVars>>
  /\ UNCHANGED scaleVars
  /\ UNCHANGED exported
  /\ UNCHANGED studentVars
  /\ UNCHANGED roleVars

NextCourses ==
  \/ setActiveTab
  \/ courseHandleFileChange
  \/ handleValidate
  \/ handleValidateResolves
  \/ courseHandleUpload
  \/ courseHandleSubmit

SpecCourses == Init /\ [][NextCourses]_vars


\* ==================================================== bulk student upload
\* BulkStudentUpload: a sheet of students is validated as a whole, then one
\* account and one row of students are created per student.  The component
\* is shown with the tab 'students'.  A cell is a number or a string, 0 and
\* "" for a cell left empty; none of the strings has blanks around it.

\* String(row.email).trim().toLowerCase()
toLowerCase(email) == IF email = "C@u.edu" THEN "c@u.edu" ELSE email

\* /^[^\s@]+@[^\s@]+\.[^\s@]+$/.test(email)
emailTest(email) ==
  email \in {"a@u.edu", "b@u.edu", "c@u.edu", "C@u.edu", "d@u.edu"}

GoodStudent1 == [nim |-> 201, name |-> "Ann", email |-> "b@u.edu",
                 password |-> "Password123", angkatan |-> 2024]
GoodStudent2 == [nim |-> 202, name |-> "Ben", email |-> "C@u.edu",
                 password |-> "Password123", angkatan |-> 2024]
\* the email of seed student 1
DuplicateEmail == [GoodStudent1 EXCEPT !.nim = 203, !.email = "a@u.edu"]
\* the nim of seed student 1, and the same student with the nim put right
DuplicateNim == [GoodStudent1 EXCEPT !.nim = 100 - 1, !.email = "d@u.edu"]
CorrectedNim == [DuplicateNim EXCEPT !.nim = 204]
\* the rows validateStudentData refuses, one per check
RefusedStudents ==
  {[GoodStudent1 EXCEPT !.nim = 0],
   [GoodStudent1 EXCEPT !.name = ""],
   [GoodStudent1 EXCEPT !.email = ""],
   [GoodStudent1 EXCEPT !.email = "b.u.edu"],
   [GoodStudent1 EXCEPT !.password = ""],
   [GoodStudent1 EXCEPT !.password = "abc"],
   [GoodStudent1 EXCEPT !.angkatan = 0]}
StudentSheets ==
  {[rows |-> r] : r \in
     {<<>>, <<GoodStudent1>>, <<GoodStudent1, GoodStudent2>>,
      <<GoodStudent1, DuplicateNim>>, <<DuplicateEmail, GoodStudent2>>,
      <<CorrectedNim>>}
       \cup {<<v>> : v \in RefusedStudents}
       \cup {<<GoodStudent1, v>> : v \in RefusedStudents}
       \cup {<<v, GoodStudent2>> : v \in RefusedStudents}}

\* faulty variant: the length of the password is not checked
studentErrorsAnyLength(row) ==
  (IF row.nim = 0 THEN {"NIM is required"} ELSE {})
    \cup (IF row.name = "" THEN {"Name is required"} ELSE {})
    \cup (IF row.email = "" THEN {"Email is required"}
          ELSE IF ~emailTest(row.email) THEN {"Invalid email format"} ELSE {})
    \cup (IF row.password = "" THEN {"Password is required"} ELSE {})
    \cup (IF row.angkatan = 0 THEN {"Angkatan is required"} ELSE {})

\* validateStudentData: the errors of one row
studentErrors(row) ==
  (IF row.nim = 0 THEN {"NIM is required"} ELSE {})
    \cup (IF row.name = "" THEN {"Name is required"} ELSE {})
    \cup (IF row.email = "" THEN {"Email is required"}
          ELSE IF ~emailTest(row.email) THEN {"Invalid email format"} ELSE {})
    \cup (IF row.password = "" THEN {"Password is required"}
          ELSE IF Len(row.password) < 6
          THEN {"Password must be at least 6 characters"} ELSE {})
    \cup (IF row.angkatan = 0 THEN {"Angkatan is required"} ELSE {})

\* validateStudentData: { valid, invalid }
RECURSIVE validateStudentData(_)
validateStudentData(data) ==
  IF data = <<>> THEN [valid |-> <<>>, invalid |-> <<>>]
  ELSE LET n == Len(data)
           row == data[n]
           rest == validateStudentData(SubSeq(data, 1, n - 1))
       IN IF studentErrors(row) # {}
          THEN [rest EXCEPT !.invalid =
                  Append(@, [row |-> n + 1, errors |-> studentErrors(row)])]
          ELSE [rest EXCEPT !.valid =
                  Append(@, [row EXCEPT !.email = toLowerCase(row.email)])]

\* the id of a new account
newUserId(users) ==
  1 + (CHOOSE m \in {u.id : u \in users} \cup {0} :
         \A u \in users : u.id <= m)

\* one pass of the loop of handleUpload: supabase.auth.signUp refuses an
\* email that has an account; the insert into students is refused by
\* nim text UNIQUE; an error of either puts the student in failed
uploadStudent(st, student) ==
  IF \E u \in st.users : u.email = student.email
  THEN [st EXCEPT !.failed =
          Append(@, [student |-> student, error |-> "User already registered"])]
  ELSE LET id == newUserId(st.users)
           users == st.users \cup {[id |-> id, email |-> student.email]}
       IN IF \E s \in st.students : s.nim = student.nim
          THEN [st EXCEPT !.users = users,
                          !.failed = Append(@, [student |-> student,
                                                error |-> "duplicate key value"])]
          ELSE [st EXCEPT !.users = users,
                          !.students = @ \cup {[id |-> id, nim |-> student.nim,
                                                angkatan |-> student.angkatan]},
                          !.success = Append(@, student)]

\* for (const student of valid) { ... }
RECURSIVE uploadStudents(_, _)
uploadStudents(st, valid) ==
  IF valid = <<>> THEN st
  ELSE uploadStudents(uploadStudent(st, Head(valid)), Tail(valid))

\* BulkStudentUpload.handleFileChange with an .xlsx file
studentHandleFileChange ==
  /\ activeTab = "students"
  /\ \E f \in StudentSheets : studentFile' = f
  /\ studentResult' = Null
  /\ studentAlert' = ""
  /\ UNCHANGED <<auth_users, studentUploading, studentReading>>
  /\ UNCHANGED <<dbVars, activeTab, selVars, reportVars, extVars, scaleVars,
                 exported>>
  /\ UNCHANGED roleVars

\* BulkStudentUpload.handleUpload up to await file.arrayBuffer(); the button
\* is there when a file is selected and disabled while uploading
studentHandleUpload ==
  /\ activeTab = "students"
  /\ studentFile # Null
  /\ ~studentUploading
  /\ studentUploading' = TRUE
  /\ studentResult' = Null
  /\ studentReading' = studentFile
  /\ studentAlert' = ""
  /\ UNCHANGED <<auth_users, studentFile>>
  /\ UNCHANGED <<dbVars, activeTab, selVars, reportVars, extVars, scaleVars,
                 exported>>
  /\ UNCHANGED roleVars

\* BulkStudentUpload.handleUpload after the file was read
studentHandleUploadResolves ==
  /\ activeTab = "students"
  /\ studentReading # Null
  /\ LET jsonData == studentReading.rows
         checked == validateStudentData(jsonData)
         done == uploadStudents([users |-> auth_users, students |-> db_students,
                                 success |-> <<>>, failed |-> <<>>],
                                checked.valid)
     IN IF jsonData = <<>>
        THEN /\ studentAlert' = "The Excel file is empty"
             /\ UNCHANGED <<auth_users, db_students, studentFile, studentResult>>
        ELSE IF checked.invalid # <<>>
        THEN /\ studentAlert' = "Validation errors found"
             /\ UNCHANGED <<auth_users, db_students, studentFile, studentResult>>
        ELSE /\ auth_users' = done.users
             /\ db_students' = done.students
             /\ studentResult' = [success |-> done.success,
                                  failed |-> done.failed]
             /\ studentFile' = Null
             /\ studentAlert' = ""
  /\ studentUploading' = FALSE
  /\ studentReading' = Null
  /\ UNCHANGED <<db_courses, db_grades, grading_scales>>
  /\ UNCHANGED <<activeTab, selVars, reportVars, extVars, scaleVars, exported>>
  /\ UNCHANGED roleVars

NextStudents ==
  \/ setActiveTab
  \/ studentHandleFileChange
  \/ studentHandleUpload
  \/ studentHandleUploadResolves

SpecStudents == Init /\ [][NextStudents]_vars


\* ======================================================= role and admin
\* App: RoleSelector inside AdminAuthProvider inside AuthProvider.  The page
\* starts with no session and no stored role; the session of the Supabase
\* client and localStorage outlive a reload, the React state does not.
otherVars == <<dbVars, activeTab, selVars, reportVars, extVars, scaleVars,
               exported, studentVars>>

\* is_admin(user_id): EXISTS (SELECT 1 FROM admin_users WHERE id = user_id)
is_admin(user_id) == \E a \in admin_users : a.id = user_id

\* supabase.rpc('is_admin', { user_id: userId }) is sent
checkAdminStatus(checks, userId) == [checks EXCEPT ![userId] = @ + 1]

\* checkAdminStatus after the await: setIsAdmin(false) on an error,
\* setIsAdmin(data === true) otherwise
isAdminAfter(data, rpcError) ==
  IF rpcError THEN FALSE ELSE data

\* the mount effect: getSession().then(...)
getSessionResolves ==
  /\ getSessionPending
  /\ getSessionPending' = FALSE
  /\ adminUser' = sessionUser
  /\ IF sessionUser # 0
     THEN /\ adminChecks[sessionUser] < MaxChecks
          /\ adminChecks' = checkAdminStatus(adminChecks, sessionUser)
          /\ UNCHANGED adminLoading
     ELSE /\ adminLoading' = FALSE
          /\ UNCHANGED adminChecks
  /\ UNCHANGED <<sessionUser, isAdmin, role, user_role>>
  /\ UNCHANGED otherVars
  /\ UNCHANGED authVars

\* onAuthStateChange with a session: a sign-in through a login form, in
\* another tab of the browser, or the signUp of a bulk student upload
authSignedIn ==
  /\ \E u \in SignInUsers \ {sessionUser} :
       /\ adminChecks[u] < MaxChecks
       /\ sessionUser' = u
       /\ adminUser' = u
       /\ adminChecks' = checkAdminStatus(adminChecks, u)
  /\ UNCHANGED <<isAdmin, adminLoading, getSessionPending, role, user_role>>
  /\ UNCHANGED otherVars
  /\ UNCHANGED authVars

\* onAuthStateChange without a session: the session ended elsewhere
authSignedOut ==
  /\ sessionUser # 0
  /\ sessionUser' = 0
  /\ adminUser' = 0
  /\ isAdmin' = FALSE
  /\ adminLoading' = FALSE
  /\ UNCHANGED <<adminChecks, getSessionPending, role, user_role>>
  /\ UNCHANGED otherVars
  /\ UNCHANGED authVars

\* checkAdminStatus after await supabase.rpc: a result or an error
checkAdminStatusResolves ==
  /\ \E u \in SignInUsers, rpcError \in BOOLEAN :
       /\ adminChecks[u] > 0
       /\ adminChecks' = [adminChecks EXCEPT ![u] = @ - 1]
       /\ isAdmin' = isAdminAfter(is_admin(u), rpcError)
  /\ adminLoading' = FALSE
  /\ UNCHANGED <<sessionUser, adminUser, getSessionPending, role, user_role>>
  /\ UNCHANGED otherVars
  /\ UNCHANGED authVars

\* AuthProvider.signOut and AdminAuthProvider.signOut, resolved: the session
\* ends, the listener runs, localStorage.removeItem('user_role')
signOut ==
  /\ role # ""
  /\ sessionUser # 0
  /\ sessionUser' = 0
  /\ adminUser' = 0
  /\ isAdmin' = FALSE
  /\ adminLoading' = FALSE
  /\ user_role' = ""
  /\ UNCHANGED <<adminChecks, getSessionPending, role>>
  /\ UNCHANGED otherVars
  /\ UNCHANGED authVars

\* RoleSelector.handleSetRole with 'student' or 'admin', from the selector
handleSetRole ==
  /\ role = ""
  /\ \E newRole \in {"student", "admin"} :
       /\ user_role' = newRole
       /\ role' = newRole
  /\ UNCHANGED <<sessionUser, adminUser, isAdmin, adminLoading, adminChecks,
                 getSessionPending>>
  /\ UNCHANGED otherVars
  /\ UNCHANGED authVars

\* onSwitchRole: handleSetRole(null); detectRole finds no item afterwards
onSwitchRole ==
  /\ role # ""
  /\ user_role' = ""
  /\ role' = ""
  /\ UNCHANGED <<sessionUser, adminUser, isAdmin, adminLoading, adminChecks,
                 getSessionPending>>
  /\ UNCHANGED otherVars
  /\ UNCHANGED authVars

\* the page is loaded again: useState(() => localStorage.getItem(...) || null),
\* the providers start over, the answers to the old page are dropped
reload ==
  /\ role' = user_role
  /\ adminUser' = 0
  /\ isAdmin' = FALSE
  /\ adminLoading' = TRUE
  /\ adminChecks' = [u \in SignInUsers |-> 0]
  /\ getSessionPending' = TRUE
  /\ UNCHANGED <<sessionUser, user_role>>
  /\ UNCHANGED otherVars
  /\ UNCHANGED authVars

NextAdmin ==
  \/ getSessionResolves
  \/ authSignedIn
  \/ authSignedOut
  \/ checkAdminStatusResolves
  \/ signOut
  \/ handleSetRole
  \/ onSwitchRole
  \/ reload

SpecAdmin == Init /\ [][NextAdmin]_vars

\* ================================================================ claims
\* What the loadReport that produced studentGrades read: its course scope,
\* its student population and the score records of one student in scope.
ScopeCourses ==
  {c \in loaded.courses : c.semester = loaded.semester
                            /\ c.curriculum = loaded.curriculum}

Population == {s \in loaded.students : s.angkatan = loaded.angkatan}

ScopeGrades(sid) ==
  {g \in loaded.grades : g.student_id = sid
                           /\ \E c \in ScopeCourses : c.id = g.course_id}

RECURSIVE ScopeTotals(_)
\* the three sums of the data model over a set of score records
ScopeTotals(G) ==
  IF G = {} THEN [totalScore |-> 0, totalWeightedGradePoint |-> 0, totalCredits |-> 0]
  ELSE LET g == CHOOSE x \in G : TRUE
           c == CHOOSE x \in loaded.courses : x.id = g.course_id
           r == ScopeTotals(G \ {g})
       IN [totalScore |-> r.totalScore + g.score,
           totalWeightedGradePoint |->
             r.totalWeightedGradePoint
               + getGradePoint(loaded.scales, g.score, loaded.curriculum) * c.credits,
           totalCredits |-> r.totalCredits + c.credits]

Aggregates == {studentGrades[i] : i \in 1..Len(studentGrades)}

\* a is strictly ahead of b on the sort keys: gpa, then the weighted grade
\* point total, then the score total, each descending
Ahead(a, b) ==
  \/ Minus(a.gpa, b.gpa) > 0
  \/ /\ Minus(a.gpa, b.gpa) = 0
     /\ a.totalGradePoint > b.totalGradePoint
  \/ /\ Minus(a.gpa, b.gpa) = 0
     /\ a.totalGradePoint = b.totalGradePoint
     /\ a.totalScore > b.totalScore

\* a and b are identical on all three sort keys
Tied(a, b) ==
  /\ Minus(a.gpa, b.gpa) = 0
  /\ a.totalGradePoint = b.totalGradePoint
  /\ a.totalScore = b.totalScore

\* C1: every aggregate of the report has gpa = totalWeightedGradePoint /
\* totalCredits when totalCredits > 0, and gpa = 0 when totalCredits = 0.
GpaIsWeightedAverage ==
  \A a \in Aggregates :
    IF a.totalCredits > 0
    THEN /\ a.gpa.den > 0
         /\ a.gpa.num * a.totalCredits = a.totalGradePoint * a.gpa.den
    ELSE a.gpa.num = 0

\* a report holding a student whose gpa is a proper fraction (1799/5) and a
\* student with no credits
GpaIsWeightedAverageWitness ==
  /\ \E a \in Aggregates : a.totalCredits = 5 /\ a.gpa.den = 5
  /\ \E a \in Aggregates : a.totalCredits = 0

\* C2: per student, totalScore, totalWeightedGradePoint and totalCredits are
\* the sums of score, gradePoint x credits and credits over exactly the
\* student's score records whose course is in the (semester, curriculum)
\* scope, one term per (student, course) pair; credits 3 at 4.0 and credits 2
\* at 3.0 give 18, 5 and 3.6.
TotalsAreScopeSums ==
  loaded # Null =>
    \A a \in Aggregates :
      LET G == ScopeGrades(a.student_id)
          t == ScopeTotals(G)
      IN /\ a.totalScore = t.totalScore
         /\ a.totalGradePoint = t.totalWeightedGradePoint
         /\ a.totalCredits = t.totalCredits
         /\ Len(a.courses) = Cardinality(G)
         /\ {a.courses[i].course_id : i \in 1..Len(a.courses)}
              = {g.course_id : g \in G}
         /\ (\E i, j \in 1..Len(a.courses) :
               /\ Len(a.courses) = 2
               /\ a.courses[i].credits = 3 /\ a.courses[i].grade_point = 400
               /\ a.courses[j].credits = 2 /\ a.courses[j].grade_point = 300)
            => /\ a.totalGradePoint = 1800
               /\ a.totalCredits = 5
               /\ a.gpa = [num |-> 360, den |-> 1]

\* the example of the claim: one student with a 3-credit course at 4.00 and a
\* 2-credit course at 3.00
TotalsAreScopeSumsWitness ==
  /\ loaded # Null
  /\ \E a \in Aggregates :
       /\ a.totalGradePoint = 1800 /\ a.totalCredits = 5
       /\ a.gpa = [num |-> 360, den |-> 1]
       /\ Cardinality(ScopeGrades(a.student_id)) = 2

\* C3: whenever A is ahead of B on gpa, then totalWeightedGradePoint, then
\* totalScore (each descending), A.rank < B.rank.
RankFollowsSortKeys ==
  \A a, b \in Aggregates : Ahead(a, b) => a.rank < b.rank

\* a report where the last key alone decides: equal gpa and equal weighted
\* total, different score totals, the student with the higher nim ahead
RankFollowsSortKeysWitness ==
  \E a, b \in Aggregates :
    /\ a.totalCredits > 0
    /\ Minus(a.gpa, b.gpa) = 0
    /\ a.totalGradePoint = b.totalGradePoint
    /\ a.totalScore > b.totalScore
    /\ a.nim > b.nim

\* C4: over n ranked students the ranks are exactly 1..n, each used once; two
\* students identical on all three keys get different ranks, and the students
\* tied with one another occupy consecutive ranks.
RanksAreSequential ==
  /\ \A i \in 1..Len(studentGrades) : studentGrades[i].rank = i
  /\ {a.rank : a \in Aggregates} = 1..Len(studentGrades)
  /\ \A a, b \in Aggregates :
       (a # b /\ Tied(a, b)) =>
         /\ a.rank # b.rank
         /\ \A c \in Aggregates :
              (a.rank < c.rank /\ c.rank < b.rank) => Tied(a, c)

\* two students with credits, identical on gpa, weighted total and score total
RanksAreSequentialWitness ==
  \E a, b \in Aggregates :
    /\ a # b /\ Tied(a, b) /\ a.totalCredits > 0
    /\ a.rank + 1 = b.rank

\* C5: every student of the selected angkatan appears exactly once in the
\* ranked output; one with no score record in scope appears with all totals
\* and gpa 0 and has a rank.
PopulationIsComplete ==
  loaded # Null =>
    /\ Len(studentGrades) = Cardinality(Population)
    /\ \A s \in Population :
         /\ Cardinality({i \in 1..Len(studentGrades) :
                           studentGrades[i].student_id = s.id}) = 1
         /\ \A a \in Aggregates :
              (a.student_id = s.id /\ ScopeGrades(s.id) = {}) =>
                /\ a.totalScore = 0 /\ a.totalGradePoint = 0
                /\ a.totalCredits = 0 /\ a.gpa = Zero
                /\ a.rank \in 1..Len(studentGrades)
    /\ \A a \in Aggregates : \E s \in Population : s.id = a.student_id

\* a report with a graded student and a student without any score in scope,
\* while a student of another angkatan has a score in the same course
PopulationIsCompleteWitness ==
  /\ loaded # Null
  /\ \E a, b \in Aggregates :
       /\ a.totalCredits > 0
       /\ ScopeGrades(b.student_id) = {} /\ b.rank = 2
  /\ \E g \in loaded.grades :
       /\ \E c \in ScopeCourses : c.id = g.course_id
       /\ \A s \in Population : s.id # g.student_id

\* the output of a report: the students in order, each with totals, gpa, rank
\* and per-course results (student.courses is a map keyed by course id)
Output(list) ==
  [i \in 1..Len(list) |->
     [student_id |-> list[i].student_id,
      courses |-> {list[i].courses[k] : k \in 1..Len(list[i].courses)},
      totalScore |-> list[i].totalScore,
      totalGradePoint |-> list[i].totalGradePoint,
      totalCredits |-> list[i].totalCredits,
      gpa |-> list[i].gpa,
      rank |-> list[i].rank]]

IsPartition(scales, curriculum) ==
  LET E == {e \in scales : e.curriculum = curriculum}
  IN /\ E # {}
     /\ \E e \in E : e.min_score = MinScore
     /\ \A e \in E : e.max_score = MaxScore
                       \/ \E n \in E : n.min_score = e.max_score + 1
     /\ \A e, n \in E : e # n => (e.max_score < n.min_score
                                   \/ n.max_score < e.min_score)

\* C7: with a scale that partitions [0,100], every score in [0,100] resolves
\* to exactly one scale entry, whose grade point is the one the report uses.
PartitionResolvesOneEntry ==
  /\ IsPartition(grading_scales, 2024) =>
       \A s \in MinScore..MaxScore :
         LET rows == GradingScalesQuery(grading_scales, s, 2024)
         IN /\ Cardinality(rows) = 1
            /\ maybeSingle(rows) \in rows
            /\ \A e \in rows :
                 /\ getGradePoint(grading_scales, s, 2024) = e.grade_point
                 /\ get_grade_point(grading_scales, s, 2024) = {e.grade_point}
                 /\ get_letter_grade(grading_scales, s, 2024) = {e.letter_grade}
  /\ (loaded # Null /\ IsPartition(loaded.scales, loaded.curriculum)) =>
       \A a \in Aggregates : \A i \in 1..Len(a.courses) :
         \E e \in loaded.scales :
           /\ e.curriculum = loaded.curriculum
           /\ e.min_score <= a.courses[i].score
           /\ a.courses[i].score <= e.max_score
           /\ a.courses[i].grade_point = e.grade_point

\* a report loaded under the partitioned default scale with a score resolved
\* to B (3.00) and one resolved to A (4.00)
PartitionResolvesOneEntryWitness ==
  /\ loaded # Null
  /\ IsPartition(loaded.scales, loaded.curriculum)
  /\ \E a, b \in Aggregates : \E i \in 1..Len(a.courses), j \in 1..Len(b.courses) :
       /\ a.courses[i].grade_point = 300
       /\ b.courses[j].grade_point = 400

\* C8: a score that no scale entry of the curriculum covers is rejected and
\* never enters an aggregate with a default grade point.
UncoveredScoreIsRejected ==
  loaded # Null =>
    \A a \in Aggregates : \A i \in 1..Len(a.courses) :
      GradingScalesQuery(loaded.scales, a.courses[i].score, loaded.curriculum) # {}

\* C9: a score that several scale entries contain gets the grade point of the
\* first matching entry in descending minScore order.
OverlapPicksHighestBracket ==
  loaded # Null =>
    \A a \in Aggregates : \A i \in 1..Len(a.courses) :
      LET rows == GradingScalesQuery(loaded.scales, a.courses[i].score,
                                     loaded.curriculum)
      IN Cardinality(rows) > 1 =>
           \E e \in rows :
             /\ \A o \in rows : e.min_score >= o.min_score
             /\ a.courses[i].grade_point = e.grade_point

\* C10: for every aggregate with totalCredits > 0, gpa is in [0,4] (every
\* grade point is in [0,4] and every course credit is a positive integer).
GpaInRange ==
  \A a \in Aggregates :
    (/\ a.totalCredits > 0
     /\ \A i \in 1..Len(a.courses) :
          /\ a.courses[i].grade_point >= 0
          /\ a.courses[i].grade_point <= MaxGradePoint
          /\ a.courses[i].credits > 0)
    => /\ a.gpa.num >= 0
       /\ a.gpa.num <= MaxGradePoint * a.gpa.den

\* a student graded A in both courses of the scope: gpa is exactly 4
GpaInRangeWitness ==
  \E a \in Aggregates :
    /\ a.totalCredits = 5
    /\ a.gpa = [num |-> MaxGradePoint, den |-> 1]

\* C11: one bad score record (no scale entry covers it, or several do and
\* the lookup fails) never aborts the aggregation: the report still lists the
\* whole population with ranks 1..n, every record in scope is aggregated, and
\* every record that one entry covers carries that entry's grade point.
BadRecordDoesNotAbort ==
  loaded # Null =>
    /\ Len(studentGrades) = Cardinality(Population)
    /\ \A i \in 1..Len(studentGrades) : studentGrades[i].rank = i
    /\ \A a \in Aggregates : \A g \in ScopeGrades(a.student_id) :
         \E k \in 1..Len(a.courses) :
           /\ a.courses[k].course_id = g.course_id
           /\ a.courses[k].score = g.score
           /\ \A e \in loaded.scales :
                GradingScalesQuery(loaded.scales, g.score, loaded.curriculum) = {e}
                  => a.courses[k].grade_point = e.grade_point

\* a report over a record that no entry covers and a record of another
\* student that resolves to a positive grade point, both ranked
BadRecordDoesNotAbortWitness ==
  /\ loaded # Null
  /\ \E a, b \in Aggregates :
       /\ a # b
       /\ a.rank \in {1, 2} /\ b.rank \in {1, 2}
       /\ \E g \in ScopeGrades(a.student_id) :
            GradingScalesQuery(loaded.scales, g.score, loaded.curriculum) = {}
       /\ \E k \in 1..Len(b.courses) : b.courses[k].grade_point > 0

\* What loadReport hands on about the score records it leaves out: its only
\* results are setCourses and setStudentGrades, and neither holds them.
SkippedRecords == {}

\* C12: a score record whose student (or course) is not in the collections
\* the report was given contributes to no student's totals and appears in
\* the list of rejected records that comes with the aggregates.
MissingReferenceIsListed ==
  loaded # Null =>
    \A g \in loaded.grades :
      (/\ \E c \in ScopeCourses : c.id = g.course_id
       /\ \A st \in Population : st.id # g.student_id)
      => /\ \A a \in Aggregates : a.student_id # g.student_id
         /\ g \in SkippedRecords

\* a parsed score that is a number of the range [0,100]
InRange(score) ==
  ~score.nan /\ score.value >= MinScore /\ score.value <= MaxScore

\* the step is the upload of ExcelGradeUpload, of GradeUpload, a save of
\* ManualGradeInput
IsExcelUpload == step = "preview" /\ step' = "upload"
IsCsvUpload == csvFile # Null /\ csvFile' = Null /\ activeTab' = activeTab
IsManualSave == activeTab = "manual-input" /\ activeTab' = activeTab

\* Excel: a row whose score is a number is refused as invalid exactly when
\* its NIM is missing or its score is outside [0,100]; a valid row whose
\* student and course exist is written with its own score (unless a later row
\* of the file writes the same pair); nothing outside [0,100] is written
ExcelValidation ==
  IsExcelUpload =>
    /\ Len(uploadedRows') = Len(preview)
    /\ \A i \in 1..Len(preview) :
         LET row == preview[i]
             student == studentByNimAngkatan(row.nim, row.angkatan)
             course == courseByCode(row.courseCode)
         IN ~row.score.nan =>
              /\ (row.nim = 0 \/ ~InRange(row.score))
                   <=> (/\ uploadedRows'[i].status = "error"
                        /\ uploadedRows'[i].message = "NIM atau nilai tidak valid")
              /\ (row.nim # 0 /\ InRange(row.score)
                    /\ student # Null /\ course # Null) =>
                   /\ uploadedRows'[i].status = "success"
                   /\ \/ \E g \in db_grades' :
                           /\ g.student_id = student.id
                           /\ g.course_id = course.id
                           /\ g.score = row.score.value
                      \/ \E j \in (i + 1)..Len(preview) :
                           preview[j].nim = row.nim
    /\ \A g \in db_grades' \ db_grades :
         g.score >= MinScore /\ g.score <= MaxScore

\* CSV: a row with its NIM, its course code and a score in [0,100], whose
\* student and course exist, is written with its own score; every other row
\* is counted as failed and nothing outside [0,100] is written
CsvValidation ==
  IsCsvUpload =>
    LET rows == csvFile.rows
        Accepted == {i \in 1..Len(rows) :
                       /\ rows[i].NIM # 0 /\ rows[i].KodeMataKuliah # 0
                       /\ InRange(parseFloat(rows[i].Nilai))
                       /\ studentByNim(rows[i].NIM) # Null
                       /\ courseByCode(rows[i].KodeMataKuliah) # Null}
    IN /\ uploadStats'.success = Cardinality(Accepted)
       /\ uploadStats'.failed = Len(rows) - Cardinality(Accepted)
       /\ \A i \in Accepted :
            \E g \in db_grades' :
              /\ g.student_id = studentByNim(rows[i].NIM).id
              /\ g.course_id = courseByCode(rows[i].KodeMataKuliah).id
              /\ g.score = parseFloat(rows[i].Nilai).value
       /\ \A g \in db_grades' \ db_grades :
            g.score >= MinScore /\ g.score <= MaxScore

\* manual input: the text of an input is empty, a number of [0,100], or the
\* stored score it was filled with, and a save writes nothing outside [0,100]
ManualValidation ==
  IsManualSave =>
    /\ \A i \in StudentIds :
         \/ gradeInputs'[i] = Empty
         \/ InRange(Number(gradeInputs'[i].value))
         \/ \E g \in db_grades : g.student_id = i
                                  /\ g.course_id = manualSelectedCourse'
                                  /\ g.score = gradeInputs'[i].value
    /\ \A g \in db_grades' \ db_grades :
         g.score >= MinScore /\ g.score <= MaxScore

\* C13: on each of the three paths a record is refused as invalid exactly
\* when its score is outside [0,100] or an identifier is missing; it is
\* refused alone, nothing is clamped or written for it, every score of
\* [0,100], 0 and 100 included, is accepted, and the other records are
\* processed.
InvalidRecordsAloneAreRejected ==
  [][ExcelValidation /\ CsvValidation /\ ManualValidation]_vars

\* the rows a step sends to the upsert: the rows of the Excel upload that got
\* status success, the rows of the CSV file that pass its test and find their
\* student and course, the filled inputs of the manual form.  last: no later
\* row of the step writes the same pair, and the table is known to take the
\* score (for a CSV score outside [0,100] it may or may not)
WrittenRows ==
  IF IsExcelUpload
  THEN {[student_id |-> studentByNimAngkatan(uploadedRows'[i].nim,
                                             uploadedRows'[i].angkatan).id,
         course_id |-> courseByCode(uploadedRows'[i].courseCode).id,
         score |-> uploadedRows'[i].score.value,
         last |-> \A j \in (i + 1)..Len(uploadedRows') :
                    uploadedRows'[j].status = "success"
                      => uploadedRows'[j].nim # uploadedRows'[i].nim] :
          i \in {k \in 1..Len(uploadedRows') : uploadedRows'[k].status = "success"}}
  ELSE IF IsCsvUpload
  THEN {[student_id |-> studentByNim(csvFile.rows[i].NIM).id,
         course_id |-> courseByCode(csvFile.rows[i].KodeMataKuliah).id,
         score |-> parseFloat(csvFile.rows[i].Nilai).value,
         last |-> InRange(parseFloat(csvFile.rows[i].Nilai))] :
          i \in {k \in 1..Len(csvFile.rows) :
                   /\ studentByNim(csvFile.rows[k].NIM) # Null
                   /\ courseByCode(csvFile.rows[k].KodeMataKuliah) # Null
                   /\ ~parseFloat(csvFile.rows[k].Nilai).nan
                   /\ parseFloat(csvFile.rows[k].Nilai).value # 0}}
  ELSE IF IsManualSave /\ manualSelectedCourse # 0
  THEN {[student_id |-> i, course_id |-> manualSelectedCourse,
         score |-> gradeInputs[i].value, last |-> TRUE] :
          i \in {k \in StudentIds : gradeInputs[k].kind = "number"}}
  ELSE {}

OnePerPair ==
  \A g, h \in db_grades :
    (g.student_id = h.student_id /\ g.course_id = h.course_id) => g = h

\* C14: the table grades holds at most one record per (student, course); a
\* write for a pair that has a record replaces it with the written score (the
\* last write wins), and a write neither deletes nor alters the record of
\* any other pair.
GradeWriteIsUpsert ==
  /\ []OnePerPair
  /\ [][db_grades' # db_grades =>
          /\ \A w \in WrittenRows :
               w.last => \E g \in db_grades' :
                           /\ g.student_id = w.student_id
                           /\ g.course_id = w.course_id
                           /\ g.score = w.score
          /\ \A g \in db_grades :
               (\A w \in WrittenRows : ~(w.student_id = g.student_id
                                          /\ w.course_id = g.course_id))
                 => g \in db_grades'
          /\ \A g \in db_grades' \ db_grades :
               \E w \in WrittenRows : /\ w.student_id = g.student_id
                                      /\ w.course_id = g.course_id
                                      /\ w.score = g.score]_vars

\* after an Excel upload that wrote the same pair twice (90, then 100): the
\* pair has the one record of score 100, next to the record of another pair
\* that an earlier write left
GradeWriteIsUpsertWitness ==
  /\ step = "upload"
  /\ \E i, j \in 1..Len(uploadedRows) :
       /\ i < j
       /\ uploadedRows[i].nim = uploadedRows[j].nim
       /\ uploadedRows[i].status = "success" /\ uploadedRows[i].score.value = 90
       /\ uploadedRows[j].status = "success" /\ uploadedRows[j].score.value = 100
       /\ \E g, h \in db_grades :
            /\ g.student_id = studentByNimAngkatan(uploadedRows[j].nim,
                                                   uploadedRows[j].angkatan).id
            /\ g.course_id = courseByCode(uploadedRows[j].courseCode).id
            /\ g.score = 100
            /\ g.course_id = h.course_id
            /\ g.student_id # h.student_id

\* C15: every per-course result of the report carries the letter grade and
\* the grade point of the one scale entry of the requested curriculum whose
\* [min_score, max_score] contains the score.
ResultIsTheScaleEntry ==
  loaded # Null =>
    \A a \in Aggregates : \A i \in 1..Len(a.courses) :
      LET rows == GradingScalesQuery(loaded.scales, a.courses[i].score,
                                     loaded.curriculum)
      IN Cardinality(rows) = 1 =>
           \A e \in rows : /\ a.courses[i].grade_point = e.grade_point
                           /\ a.courses[i].letter_grade = e.letter_grade

\* C16: over the same student and the same graded courses, the GPA of
\* Dashboard.calculateGPA equals, to two decimals, the GPA of the semester
\* report, and both are 0 when there is no graded course.
DashboardGpaIsReportGpa ==
  loaded # Null =>
    \A a \in Aggregates :
      calculateGPA(ScopeGrades(a.student_id), loaded.courses)
        = toFixed(a.gpa.num, a.gpa.den)

\* C17: while a user is signed in, once INACTIVITY_TIMEOUT minutes have
\* passed without an activity event the timer has fired and called signOut,
\* and a callback that has run to its end has told the user that they were
\* logged out.
InactivitySignsOut ==
  \A p \in Providers :
    /\ (user[p] /\ idle > INACTIVITY_TIMEOUT) => callback[p] # "none"
    /\ callback[p] # "failed"

\* C18: every activity event restarts the countdown of each provider that has
\* a user; a provider never has two timers pending; no timer becomes due, and
\* no inactivity sign-out starts, less than INACTIVITY_TIMEOUT minutes after
\* the last activity event; no timer is pending for a provider without a
\* user or after the providers unmounted.
ActivityRestartsCountdown ==
  /\ [](\A p \in Providers :
          /\ Cardinality({t \in timers : t.provider = p}) <= 1
          /\ \A t \in timers :
               t.provider = p =>
                 /\ user[p] /\ mounted /\ session
                 /\ t.remaining + idle >= INACTIVITY_TIMEOUT)
  /\ [][\A p \in Providers :
          /\ (callback'[p] = "signOut" /\ callback[p] # "signOut")
               => idle >= INACTIVITY_TIMEOUT
          /\ (idle' = 0 /\ user[p] /\ user'[p]) =>
               [provider |-> p, remaining |-> INACTIVITY_TIMEOUT] \in timers']_vars

\* the timer of a provider has fired exactly INACTIVITY_TIMEOUT minutes after
\* an activity event that came some minutes after the sign-in
ActivityRestartsCountdownWitness ==
  \E p \in Providers :
    /\ callback[p] = "signOut"
    /\ idle = INACTIVITY_TIMEOUT
    /\ now > INACTIVITY_TIMEOUT
    /\ session

\* C19: a bulk enrollment, by course or by curriculum, skips every student
\* who already has an enrollment in the course.  Every student the handler
\* does not skip gets an insert and ends in success or failed, so for a pair
\* that is in the table before the run the student is in skipped and in
\* neither of the other two, and the rows of the pair stay as they were; by
\* curriculum, where only counts are kept, the skipped count of a course
\* covers its enrolled students and the other two counts fit in the rest.
\* At every moment the table holds at most one row per (student, course).
Enrolled(tbl, sid, cid) ==
  \E r \in tbl : r.student_id = sid /\ r.course_id = cid

OneEnrollmentPerPair ==
  \A r1 \in db_enrollments, r2 \in db_enrollments :
    (r1.student_id = r2.student_id /\ r1.course_id = r2.course_id) => r1 = r2

IsBulkEnroll ==
  /\ activeTab = "enrollments" /\ activeTab' = "enrollments"
  /\ showBulkEnrollment
  /\ bulkResult' # Null
  /\ db_enrollments \subseteq db_enrollments'
  /\ (bulkResult' # bulkResult \/ db_enrollments' # db_enrollments)

BulkSkipsEnrolled ==
  IsBulkEnroll =>
    \A s \in SeqRange(filteredStudents(bulkSelectedAngkatan)) :
      Enrolled(db_enrollments, s.id, bulkSelectedCourse) =>
        /\ s.id \in SeqRange(bulkResult'.skipped)
        /\ s.id \notin SeqRange(bulkResult'.failed)
        /\ s.id \notin SeqRange(bulkResult'.success)
        /\ \A r \in db_enrollments' :
             (r.student_id = s.id /\ r.course_id = bulkSelectedCourse)
               => r \in db_enrollments

IsCurriculumEnroll ==
  /\ activeTab = "bulk-curriculum" /\ activeTab' = "bulk-curriculum"
  /\ curriculumResult' # Null
  /\ (curriculumResult' # curriculumResult \/ db_enrollments' # db_enrollments)

CurriculumSkipsEnrolled ==
  IsCurriculumEnroll =>
    LET students == SeqRange(studentsInAngkatan(curriculumSelectedAngkatan))
    IN /\ {curriculumResult'[i].course : i \in 1..Len(curriculumResult')}
            = {c.id : c \in SeqRange(coursesInCurriculum(selectedCurriculum))}
       /\ \A i \in 1..Len(curriculumResult') :
            LET detail == curriculumResult'[i]
                already == {s \in students :
                              Enrolled(db_enrollments, s.id, detail.course)}
            IN /\ detail.skipped >= Cardinality(already)
               /\ detail.success + detail.failed
                    <= Cardinality(students) - Cardinality(already)
               /\ \A r \in db_enrollments' :
                    (r.course_id = detail.course
                       /\ \E s \in already : s.id = r.student_id)
                      => r \in db_enrollments

OneCoursePerKey ==
  \A r1 \in db_courses, r2 \in db_courses :
    (r1.code = r2.code /\ r1.curriculum = r2.curriculum) => r1 = r2

IsCourseUpload ==
  /\ activeTab = "bulk-course" /\ activeTab' = "bulk-course"
  /\ validationResult # Null
  /\ validationResult.valid
  /\ uploadResult' # Null
  /\ (uploadResult' # uploadResult \/ db_courses' # db_courses
        \/ validationResult' # validationResult)

CourseRowIsUpserted(row) ==
  LET old == {r \in db_courses : r.code = row.code
                                   /\ r.curriculum = row.curriculum}
      new == {r \in db_courses' : r.code = row.code
                                    /\ r.curriculum = row.curriculum}
  IN /\ new # {}
     /\ \A r \in new : /\ r.credits = row.credits
                       /\ r.semester = semesterOrDefault(row.semester)
     /\ old # {} => {r.id : r \in new} = {r.id : r \in old}
     /\ old = {} => \A r \in new : r.id \notin {o.id : o \in db_courses}

CourseUploadIsUpsert ==
  [][IsCourseUpload =>
          /\ OneCoursePerKey'
          /\ \A i \in 1..Len(validationResult.data) :
               CourseRowIsUpserted(validationResult.data[i])
          /\ \A codeUnique \in BOOLEAN :
               uploadCourses(validationResult.data, db_courses',
                             [success |-> 0, failed |-> 0], codeUnique).table
                 = db_courses']_vars

\* C24: when ExcelGradeUpload.handleUpload has run, the processed rows are
\* the preview rows in their order, each with the status success or error; a
\* row in error carries a message; and the table grades is the table before
\* the upload with one upsert for every row in success, in the order of the
\* rows, and nothing for a row in error.
RECURSIVE UpsertsOfSuccess(_, _)
UpsertsOfSuccess(rows, grades) ==
  IF rows = <<>> THEN grades
  ELSE LET row == Head(rows)
       IN IF row.status = "success"
          THEN UpsertsOfSuccess(
                 Tail(rows),
                 {g \in grades :
                    ~(g.student_id = studentByNimAngkatan(row.nim, row.angkatan).id
                        /\ g.course_id = courseByCode(row.courseCode).id)}
                   \cup {[student_id |-> studentByNimAngkatan(row.nim, row.angkatan).id,
                          course_id |-> courseByCode(row.courseCode).id,
                          score |-> row.score.value,
                          letter_grade |-> getLetterGrade(row.score.value)]})
          ELSE UpsertsOfSuccess(Tail(rows), grades)

EveryRowHasFinalStatus ==
  [][IsExcelUpload =>
       /\ Len(uploadedRows') = Len(preview)
       /\ \A i \in 1..Len(preview) :
            /\ uploadedRows'[i].nim = preview[i].nim
            /\ uploadedRows'[i].score = preview[i].score
            /\ uploadedRows'[i].courseCode = preview[i].courseCode
            /\ uploadedRows'[i].angkatan = preview[i].angkatan
            /\ uploadedRows'[i].status \in {"success", "error"}
            /\ uploadedRows'[i].status = "error" => uploadedRows'[i].message # ""
       /\ db_grades' = UpsertsOfSuccess(uploadedRows', db_grades)]_vars

\* an upload has ended with a row in success after a row in error
EveryRowHasFinalStatusWitness ==
  /\ step = "upload"
  /\ \E i \in 1..Len(uploadedRows), j \in 1..Len(uploadedRows) :
       /\ i < j
       /\ uploadedRows[i].status = "error"
       /\ uploadedRows[j].status = "success"

\* C26: in the wizard of ExcelGradeUpload a step past select has a file, a
\* step past course has a selected course, a step past angkatan has a
\* selected angkatan, and the step upload is entered only from preview with
\* rows in the preview.
WizardStepsHaveTheirInputs ==
  /\ [](/\ step # "select" => file # Null
        /\ step \in {"angkatan", "preview", "upload"} => excelSelectedCourse # 0
        /\ step \in {"preview", "upload"} => excelSelectedAngkatan # 0
        /\ step \in {"select", "course", "angkatan", "preview", "upload"})
  /\ [][(step' = "upload" /\ step # "upload")
          => (step = "preview" /\ preview # <<>>)]_vars

\* the wizard has gone back from the preview to the first step with the
\* file, the course and the angkatan still selected
WizardStepsHaveTheirInputsWitness ==
  /\ step = "select"
  /\ file # Null
  /\ excelSelectedCourse # 0
  /\ excelSelectedAngkatan # 0
  /\ preview # <<>>

\* C28: the letter stored with a grade whose score is in [0,100] is the
\* letter each of the three entry paths gives that score: getLetterGrade of
\* ExcelGradeUpload, getLetterGrade of GradeUpload and calculateLetterGrade
\* of ManualGradeInput.
SameLetterOnEveryPath ==
  \A g \in db_grades :
    (g.score >= MinScore /\ g.score <= MaxScore) =>
      /\ g.letter_grade = getLetterGrade(g.score)
      /\ g.letter_grade = csvGetLetterGrade(g.score)
      /\ g.letter_grade = calculateLetterGrade(g.score)

\* C30: a validation result on screen is the result of validating the file
\* that is selected; selecting a file clears the validation and the upload
\* result; and the table courses changes in BulkCourseUpload only by an
\* upload from a valid result, one without a refused row or a repeated
\* (code, curriculum), that was computed from the selected file.
ResultIsOfSelectedFile ==
  validationResult # Null =>
    /\ courseFile # Null
    /\ validationResult = validateData(courseFile.rows)

UploadsOnlyValidatedFile ==
  /\ []ResultIsOfSelectedFile
  /\ [][/\ (activeTab = "bulk-course" /\ courseFile' # courseFile
              /\ courseFile' # Null)
             => (validationResult' = Null /\ uploadResult' = Null)
        /\ (activeTab = "bulk-course" /\ db_courses' # db_courses) =>
             /\ validationResult # Null
             /\ validationResult.valid
             /\ courseFile # Null
             /\ validationResult = validateData(courseFile.rows)
             /\ validationResult.errors = 0
             /\ duplicates(validationResult.data) = {}]_vars

\* C23: every entry that a step of the grading-scale form writes has
\* 0 <= min_score <= max_score <= 100 and 0 <= grade_point <= 4; and while
\* the open form holds a value that is not a number or is outside these
\* ranges, a step is a change of tab, the closing of the form, the typing of
\* another form, or a refused submission, which sets a message and leaves
\* the table, the form and the entry being edited as they are.
ScaleInRange(e) ==
  /\ MinScore <= e.min_score /\ e.min_score <= e.max_score
  /\ e.max_score <= MaxScore
  /\ 0 <= e.grade_point /\ e.grade_point <= MaxGradePoint

FormIsValid(form) ==
  /\ form.min_score.kind = "number"
  /\ form.max_score.kind = "number"
  /\ form.grade_point.kind = "number"
  /\ ScaleInRange([min_score |-> form.min_score.value,
                   max_score |-> form.max_score.value,
                   grade_point |-> form.grade_point.value])

RefusedSubmission ==
  /\ error' # ""
  /\ UNCHANGED <<grading_scales, showForm, editingId, formData>>

SubmitWritesOnlyValidScale ==
  [][(activeTab = "grading-scale" /\ showForm) =>
       /\ \A e \in grading_scales' \ grading_scales : ScaleInRange(e)
       /\ ~FormIsValid(formData) =>
            \/ activeTab' # activeTab
            \/ /\ ~showForm' /\ editingId' = Null /\ error' = ""
               /\ UNCHANGED grading_scales
            \/ /\ formData' # formData
               /\ UNCHANGED <<grading_scales, showForm, editingId, error>>
            \/ RefusedSubmission]_vars

SubmitWritesOnlyValidScaleWitness ==
  /\ activeTab = "grading-scale"
  /\ showForm
  /\ ~FormIsValid(formData)
  /\ error = "Grade point harus antara 0-4"
  /\ ScaleBPlus \in grading_scales

\* C29: the semester and the angkatan in the name, the sheet and the title
\* of an exported file, and the curriculum in the title of the PDF, are the
\* ones the exported rows were loaded for.
ExportLabelsAreOfLoadedRows ==
  exported # Null =>
    /\ loaded # Null
    /\ exported.rows = studentGrades
    /\ exported.semester = loaded.semester
    /\ exported.angkatan = loaded.angkatan
    /\ exported.kind = "pdf" => exported.curriculum = loaded.curriculum

\* C21: when the upload of a student sheet ends and a row of the sheet
\* lacks its NIM, name, email, password or angkatan, has a malformed email
\* or a password of fewer than 6 characters, no account and no row of
\* students was created; and the flag uploading is false again.
StudentRowFails(row) ==
  \/ row.nim = 0
  \/ row.name = ""
  \/ row.email = ""
  \/ ~emailTest(row.email)
  \/ row.password = ""
  \/ Len(row.password) < 6
  \/ row.angkatan = 0

IsStudentUploadEnd ==
  /\ activeTab = "students"
  /\ activeTab' = activeTab
  /\ studentReading # Null
  /\ studentReading' = Null

InvalidSheetWritesNothing ==
  [][IsStudentUploadEnd =>
       /\ ~studentUploading'
       /\ (\E i \in 1..Len(studentReading.rows) :
             StudentRowFails(studentReading.rows[i]))
            => UNCHANGED <<auth_users, db_students>>]_vars

InvalidSheetWritesNothingWitness ==
  /\ studentAlert = "Validation errors found"
  /\ ~studentUploading
  /\ studentFile # Null
  /\ Len(studentFile.rows) = 2
  /\ ~StudentRowFails(studentFile.rows[1])
  /\ StudentRowFails(studentFile.rows[2])
  /\ auth_users = SeedAccounts
  /\ db_students = SeedStudents

\* C22: when the upload of a student sheet ends, no account and no row of
\* students was created for a student the result lists as failed.
FailedStudentLeavesNothing ==
  [][(IsStudentUploadEnd /\ studentResult' # Null) =>
       \A i \in 1..Len(studentResult'.failed) :
         LET student == studentResult'.failed[i].student
         IN /\ ~\E u \in auth_users' \ auth_users : u.email = student.email
            /\ ~\E s \in db_students' \ db_students : s.nim = student.nim]_vars

\* C25: whenever isAdmin is true, and so whenever AdminApp shows the
\* AdminDashboard, the user of AdminAuthProvider is signed in and is_admin
\* of that user's id is true; and an is_admin call that ends in an error
\* leaves isAdmin false.
ShowsAdminDashboard == role = "admin" /\ ~adminLoading /\ adminUser # 0 /\ isAdmin

AdminOnlyForAdminUser ==
  /\ [](isAdmin => (adminUser # 0 /\ is_admin(adminUser)))
  /\ [](ShowsAdminDashboard => is_admin(adminUser))
  /\ [][(\E u \in SignInUsers : adminChecks'[u] < adminChecks[u])
          => (isAdmin' => \E u \in SignInUsers :
                            /\ adminChecks'[u] < adminChecks[u]
                            /\ is_admin(u))]_vars

\* C27: the role of RoleSelector is the item 'user_role' of localStorage.
RoleIsStoredRole == role = user_role

====
